---------------------------- MODULE Spec2Model ----------------------------
(***************************************************************************)
(* A model of libcharset (mloar/charset): the per-character codecs         *)
(* (read_xxx / write_xxx of each charset_spec), and the streaming front    *)
(* end built on them.                                                      *)
(*                                                                         *)
(* A charset_state is two C `unsigned long' words, s0 and s1.  TLC's       *)
(* integers are 32-bit signed, so a word is kept as a pair <<hi, lo>> of   *)
(* 16-bit halves; every bit manipulation of the source is expressed with   *)
(* Bits / SetBits / BitAnd / BitXor on such pairs.                         *)
(***************************************************************************)
EXTENDS Integers, Sequences, FiniteSets, TLC

(***************************************************************************)
(* Words                                                                   *)
(***************************************************************************)
Half == 2 ^ 16

Pow2(n) == 2 ^ n

\* the word whose value is v, for 0 <= v < 2^31
Wd(v) == <<v \div Half, v % Half>>

\* the value of a word known to be below 2^31
Val(w) == w[1] * Half + w[2]

\* the word made of four bytes, most significant first
FromBytes(b3, b2, b1, b0) == <<b3 * 256 + b2, b1 * 256 + b0>>

\* (w >> p) & (2^n - 1), for n <= 16
Bits(w, p, n) ==
    IF p >= 16 THEN (w[1] \div Pow2(p - 16)) % Pow2(n)
    ELSE IF p + n <= 16 THEN (w[2] \div Pow2(p)) % Pow2(n)
    ELSE (w[2] \div Pow2(p)) + (w[1] % Pow2(p + n - 16)) * Pow2(16 - p)

\* w with its n bits from position p replaced by v (a field inside one half)
SetBits(w, p, n, v) ==
    IF p >= 16
    THEN <<w[1] - ((w[1] \div Pow2(p - 16)) % Pow2(n)) * Pow2(p - 16)
                + v * Pow2(p - 16), w[2]>>
    ELSE <<w[1], w[2] - ((w[2] \div Pow2(p)) % Pow2(n)) * Pow2(p)
                      + v * Pow2(p)>>

RECURSIVE BitAnd16(_, _, _)
BitAnd16(a, b, n) ==
    IF n = 0 THEN 0
    ELSE (IF a % 2 = 1 /\ b % 2 = 1 THEN 1 ELSE 0)
         + 2 * BitAnd16(a \div 2, b \div 2, n - 1)

RECURSIVE BitXor16(_, _, _)
BitXor16(a, b, n) ==
    IF n = 0 THEN 0
    ELSE (IF a % 2 # b % 2 THEN 1 ELSE 0)
         + 2 * BitXor16(a \div 2, b \div 2, n - 1)

BitAnd(w, m) == <<BitAnd16(w[1], m[1], 16), BitAnd16(w[2], m[2], 16)>>
BitXor(w, m) == <<BitXor16(w[1], m[1], 16), BitXor16(w[2], m[2], 16)>>

Min(S) == CHOOSE k \in S : \A m \in S : k <= m

ZeroWord == <<0, 0>>

\* CHARSET_INIT_STATE
charset_init_state == [s0 |-> ZeroWord, s1 |-> ZeroWord]

ERROR == \hFFFF

(***************************************************************************)
(* Results of one codec call.                                              *)
(*  read : the new state, the code points emitted, and whether every       *)
(*         assertion and array index met on the way was in bounds.         *)
(*  write: the new state, the bytes emitted, and the set of values the     *)
(*         call can return.                                                *)
(***************************************************************************)
RdRes(st, out) == [st |-> st, out |-> out, ok |-> TRUE]
WrRes(st, out, ret) ==
    [st |-> st, out |-> out, rets |-> {ret}, ok |-> TRUE]

(***************************************************************************)
(* Double-byte tables.  The tables themselves (big5.c, gb2312.c, ...) are  *)
(* data; each is represented by a sample of its entries <<row, col, ucs>>, *)
(* and every other position is unassigned.                                 *)
(***************************************************************************)
TabTo(tab, r, c) ==
    IF \E e \in tab : e[1] = r /\ e[2] = c
    THEN (CHOOSE e \in tab : e[1] = r /\ e[2] = c)[3]
    ELSE ERROR

TabHas(tab, u) == \E e \in tab : e[3] = u
TabFrom(tab, u) == CHOOSE e \in tab : e[3] = u

big5_table == { <<0, 0, \h3000>>, <<3, 0, \h4E00>>, <<3, 120, \h5143>>,
                <<40, 0, \h4E42>> }
cp949_table == { <<1, 1, \hAC02>>, <<48, 97, \hAC00>>, <<33, 97, \h3000>> }
gb2312_table == { <<0, 0, \h3000>>, <<15, 0, \h554A>>, <<49, 26, \h4E00>> }
jisx0208_table == { <<0, 0, \h3000>>, <<0, 31, \h5C>>, <<3, 1, \h3042>>,
                    <<15, 0, \h4E9C>>, <<37, 91, \h65E5>> }
jisx0212_table == { <<1, 14, \h2D8>>, <<15, 0, \h4E02>> }
ksx1001_table == { <<0, 0, \h3000>>, <<15, 0, \hAC00>> }

big5_to_unicode(r, c) == TabTo(big5_table, r, c)
cp949_to_unicode(r, c) == TabTo(cp949_table, r, c)
gb2312_to_unicode(r, c) == TabTo(gb2312_table, r, c)
jisx0208_to_unicode(r, c) == TabTo(jisx0208_table, r, c)
jisx0212_to_unicode(r, c) == TabTo(jisx0212_table, r, c)
ksx1001_to_unicode(r, c) == TabTo(ksx1001_table, r, c)

\* CNS 11643 has seven planes: entries are <<plane, row, col, ucs>>
cns11643_table == { <<0, 0, 0, \h3000>>, <<0, 35, 0, \h4E00>>,
                    <<1, 0, 0, \h4E42>>, <<2, 0, 0, \h4E28>> }
cns11643_to_unicode(p, r, c) ==
    IF \E e \in cns11643_table : e[1] = p /\ e[2] = r /\ e[3] = c
    THEN (CHOOSE e \in cns11643_table : e[1] = p /\ e[2] = r /\ e[3] = c)[4]
    ELSE ERROR
unicode_to_cns11643(u) ==
    IF \E e \in cns11643_table : e[4] = u
    THEN CHOOSE e \in cns11643_table : e[4] = u
    ELSE <<>>

(***************************************************************************)
(* Big5 (big5enc.c)                                                        *)
(***************************************************************************)
read_big5(st, input_chr) ==
    LET s0 == Val(st.s0) IN
    IF s0 = 0
    THEN IF input_chr >= \hA1 /\ input_chr <= \hFE
         THEN RdRes([st EXCEPT !.s0 = Wd(input_chr)], <<>>)
         ELSE RdRes(st, <<input_chr>>)
    ELSE IF (input_chr >= \h40 /\ input_chr <= \h7E)
            \/ (input_chr >= \hA1 /\ input_chr <= \hFE)
         THEN RdRes([st EXCEPT !.s0 = ZeroWord],
                    <<big5_to_unicode(s0 - \hA1, input_chr - \h40)>>)
         ELSE RdRes([st EXCEPT !.s0 = ZeroWord], <<ERROR>>)

write_big5(st, input_chr) ==
    IF input_chr = -1 THEN WrRes(st, <<>>, TRUE)
    ELSE IF input_chr < \h80 THEN WrRes(st, <<input_chr>>, TRUE)
    ELSE IF TabHas(big5_table, input_chr)
         THEN LET e == TabFrom(big5_table, input_chr) IN
              WrRes(st, <<e[1] + \hA1, e[2] + \h40>>, TRUE)
         ELSE WrRes(st, <<>>, FALSE)

(***************************************************************************)
(* CP949 (cp949.c)                                                         *)
(***************************************************************************)
read_cp949(st, input_chr) ==
    LET s0 == Val(st.s0) IN
    IF s0 = 0
    THEN IF input_chr >= \h81 /\ input_chr <= \hFE
         THEN RdRes([st EXCEPT !.s0 = Wd(input_chr)], <<>>)
         ELSE RdRes(st, <<input_chr>>)
    ELSE IF input_chr >= \h40 /\ input_chr <= \hFF
         THEN RdRes([st EXCEPT !.s0 = ZeroWord],
                    <<cp949_to_unicode(s0 - \h80, input_chr - \h40)>>)
         ELSE RdRes([st EXCEPT !.s0 = ZeroWord], <<ERROR>>)

write_cp949(st, input_chr) ==
    IF input_chr = -1 THEN WrRes(st, <<>>, TRUE)
    ELSE IF input_chr < \h80 THEN WrRes(st, <<input_chr>>, TRUE)
    ELSE IF TabHas(cp949_table, input_chr)
         THEN LET e == TabFrom(cp949_table, input_chr) IN
              WrRes(st, <<e[1] + \h80, e[2] + \h40>>, TRUE)
         ELSE WrRes(st, <<>>, FALSE)

(***************************************************************************)
(* Shift-JIS (shiftjis.c)                                                  *)
(***************************************************************************)
\* read_sjis, tab being the JIS X 0208 table behind jisx0208_to_unicode
read_sjis_on(tab, st, input_chr) ==
    LET s0 == Val(st.s0) IN
    IF s0 = 0
    THEN IF (input_chr >= \h81 /\ input_chr <= \h9F)
            \/ (input_chr >= \hE0 /\ input_chr <= \hEF)
         THEN RdRes([st EXCEPT !.s0 = Wd(input_chr)], <<>>)
         ELSE RdRes(st,
                <<IF input_chr = \h5C THEN \hA5
                  ELSE IF input_chr = \h7E THEN \h203E
                  ELSE IF input_chr >= \hA1 /\ input_chr <= \hDF
                       THEN input_chr + (\hFF61 - \hA1)
                  ELSE IF input_chr < \h80 THEN input_chr
                  ELSE ERROR>>)
    ELSE IF input_chr >= \h40 /\ input_chr <= \hFC /\ input_chr # \h7F
         THEN LET r0 == (IF s0 >= \hE0 THEN s0 - (\hE0 - \hA0) ELSE s0) - \h81
                  c0 == (IF input_chr > \h7F THEN input_chr - 1
                         ELSE input_chr) - \h40
                  r == IF c0 >= 94 THEN r0 * 2 + 1 ELSE r0 * 2
                  c == IF c0 >= 94 THEN c0 - 94 ELSE c0
              IN RdRes([st EXCEPT !.s0 = ZeroWord],
                       <<TabTo(tab, r, c)>>)
         ELSE RdRes([st EXCEPT !.s0 = ZeroWord], <<ERROR>>)

read_sjis(st, input_chr) == read_sjis_on(jisx0208_table, st, input_chr)

\* a write_sjis that uses 0x7F as a trail byte
write_sjis_on_trail_7f(tab, st, input_chr) ==
    IF input_chr = -1 THEN WrRes(st, <<>>, TRUE)
    ELSE IF input_chr < \h80 /\ input_chr # \h5C /\ input_chr # \h7E
         THEN WrRes(st, <<input_chr>>, TRUE)
    ELSE IF input_chr = \hA5 THEN WrRes(st, <<\h5C>>, TRUE)
    ELSE IF input_chr = \h203E THEN WrRes(st, <<\h7E>>, TRUE)
    ELSE IF input_chr >= \hFF61 /\ input_chr <= \hFF9F
         THEN WrRes(st, <<input_chr - (\hFF61 - \hA1)>>, TRUE)
    ELSE IF TabHas(tab, input_chr)
         THEN LET e == TabFrom(tab, input_chr)
                  c1 == e[2] + 94 * (e[1] % 2)
                  r1 == (e[1] \div 2) + \h81
                  r == IF r1 >= \hA0 THEN r1 + (\hE0 - \hA0) ELSE r1
                  c2 == c1 + \h40
                  c == IF c2 > \h7F THEN c2 + 1 ELSE c2
              IN WrRes(st, <<r, c>>, TRUE)
         ELSE WrRes(st, <<>>, FALSE)

\* write_sjis, tab being the JIS X 0208 table behind unicode_to_jisx0208
write_sjis_on(tab, st, input_chr) ==
    IF input_chr = -1 THEN WrRes(st, <<>>, TRUE)
    ELSE IF input_chr < \h80 /\ input_chr # \h5C /\ input_chr # \h7E
         THEN WrRes(st, <<input_chr>>, TRUE)
    ELSE IF input_chr = \hA5 THEN WrRes(st, <<\h5C>>, TRUE)
    ELSE IF input_chr = \h203E THEN WrRes(st, <<\h7E>>, TRUE)
    ELSE IF input_chr >= \hFF61 /\ input_chr <= \hFF9F
         THEN WrRes(st, <<input_chr - (\hFF61 - \hA1)>>, TRUE)
    ELSE IF TabHas(tab, input_chr)
         THEN LET e == TabFrom(tab, input_chr)
                  c1 == e[2] + 94 * (e[1] % 2)
                  r1 == (e[1] \div 2) + \h81
                  r == IF r1 >= \hA0 THEN r1 + (\hE0 - \hA0) ELSE r1
                  c2 == c1 + \h40
                  c == IF c2 >= \h7F THEN c2 + 1 ELSE c2
              IN WrRes(st, <<r, c>>, TRUE)
         ELSE WrRes(st, <<>>, FALSE)

write_sjis(st, input_chr) == write_sjis_on(jisx0208_table, st, input_chr)

(***************************************************************************)
(* EUC (euc.c).  A variant is [nchars, to_ucs, from_ucs]; to_ucs and       *)
(* from_ucs are selected by the variant's name.                            *)
(***************************************************************************)
euc_cn_to_ucs(state) ==
    IF Bits(state, 28, 4) = 1
    THEN gb2312_to_unicode(Bits(state, 8, 8) - \hA1, Bits(state, 0, 8) - \hA1)
    ELSE ERROR

euc_cn_from_ucs(ucs) ==
    IF TabHas(gb2312_table, ucs)
    THEN LET e == TabFrom(gb2312_table, ucs) IN
         FromBytes(\h10, 0, e[1] + \hA1, e[2] + \hA1)
    ELSE ZeroWord

euc_kr_to_ucs(state) ==
    IF Bits(state, 28, 4) = 1
    THEN ksx1001_to_unicode(Bits(state, 8, 8) - \hA1, Bits(state, 0, 8) - \hA1)
    ELSE ERROR

euc_kr_from_ucs(ucs) ==
    IF TabHas(ksx1001_table, ucs)
    THEN LET e == TabFrom(ksx1001_table, ucs) IN
         FromBytes(\h10, 0, e[1] + \hA1, e[2] + \hA1)
    ELSE ZeroWord

euc_jp_to_ucs(state) ==
    CASE Bits(state, 28, 4) = 1 ->
           jisx0208_to_unicode(Bits(state, 8, 8) - \hA1,
                               Bits(state, 0, 8) - \hA1)
      [] Bits(state, 28, 4) = 2 ->
           LET c == Bits(state, 0, 8) IN
           IF c >= \hA1 /\ c <= \hDF THEN c + (\hFF61 - \hA1) ELSE ERROR
      [] Bits(state, 28, 4) = 3 ->
           jisx0212_to_unicode(Bits(state, 8, 8) - \hA1,
                               Bits(state, 0, 8) - \hA1)
      [] OTHER -> ERROR

euc_jp_from_ucs(ucs) ==
    IF ucs >= \hFF61 /\ ucs <= \hFF9F
    THEN FromBytes(\h20, 0, 0, ucs - (\hFF61 - \hA1))
    ELSE IF TabHas(jisx0208_table, ucs)
    THEN LET e == TabFrom(jisx0208_table, ucs) IN
         FromBytes(\h10, 0, e[1] + \hA1, e[2] + \hA1)
    ELSE IF TabHas(jisx0212_table, ucs)
    THEN LET e == TabFrom(jisx0212_table, ucs) IN
         FromBytes(\h30, 0, e[1] + \hA1, e[2] + \hA1)
    ELSE ZeroWord

\* case 2 takes the plane from bits 15:8 of the state, where the row is
euc_tw_to_ucs(state) ==
    CASE Bits(state, 28, 4) = 1 ->
           cns11643_to_unicode(0, Bits(state, 8, 8) - \hA1,
                                  Bits(state, 0, 8) - \hA1)
      [] Bits(state, 28, 4) = 2 ->
           LET plane == Bits(state, 8, 8) - \hA1 IN
           IF plane >= 7 THEN ERROR
           ELSE cns11643_to_unicode(plane, Bits(state, 8, 8) - \hA1,
                                           Bits(state, 0, 8) - \hA1)
      [] OTHER -> ERROR

euc_tw_from_ucs(ucs) ==
    LET e == unicode_to_cns11643(ucs) IN
    IF e # <<>>
    THEN IF e[1] = 0
         THEN FromBytes(\h10, 0, e[2] + \hA1, e[3] + \hA1)
         ELSE FromBytes(\h20, e[1] + \hA1, e[2] + \hA1, e[3] + \hA1)
    ELSE ZeroWord

euc_cn == [name |-> "CN", nchars |-> <<2, 0, 0>>]
euc_kr == [name |-> "KR", nchars |-> <<2, 0, 0>>]
euc_jp == [name |-> "JP", nchars |-> <<2, 1, 2>>]
euc_tw == [name |-> "TW", nchars |-> <<2, 3, 0>>]

euc_to_ucs(euc, state) ==
    CASE euc.name = "CN" -> euc_cn_to_ucs(state)
      [] euc.name = "KR" -> euc_kr_to_ucs(state)
      [] euc.name = "JP" -> euc_jp_to_ucs(state)
      [] euc.name = "TW" -> euc_tw_to_ucs(state)

euc_from_ucs(euc, ucs) ==
    CASE euc.name = "CN" -> euc_cn_from_ucs(ucs)
      [] euc.name = "KR" -> euc_kr_from_ucs(ucs)
      [] euc.name = "JP" -> euc_jp_from_ucs(ucs)
      [] euc.name = "TW" -> euc_tw_from_ucs(ucs)

\* a read_euc that does not count the first byte of the default set
read_euc_first_uncounted(euc, st, input_chr) ==
    LET \* a continuation byte, or ERROR for the interrupted character
        bad == st.s0 # ZeroWord /\ (input_chr < \hA1 \/ input_chr = \hFF)
        s1 == IF st.s0 = ZeroWord THEN st.s0
              ELSE IF bad THEN ZeroWord
              ELSE FromBytes((Bits(st.s0, 24, 8) + 1) % 256,
                             Bits(st.s0, 8, 8), Bits(st.s0, 0, 8), input_chr)
        o1 == IF bad THEN <<ERROR>> ELSE <<>>
        \* a byte met in the idle state
        idle == s1 = ZeroWord
        s2 == IF ~idle THEN s1
              ELSE IF input_chr < \h80 THEN s1
              ELSE IF input_chr = \h8E THEN FromBytes(\h20, 0, 0, 0)
              ELSE IF input_chr = \h8F THEN FromBytes(\h30, 0, 0, 0)
              ELSE IF input_chr < \hA1 \/ input_chr = \hFF THEN s1
              ELSE FromBytes(\h10, 0, 0, input_chr)
        o2 == IF ~idle THEN <<>>
              ELSE IF input_chr < \h80 THEN <<input_chr>>
              ELSE IF input_chr = \h8E \/ input_chr = \h8F THEN <<>>
              ELSE IF input_chr < \hA1 \/ input_chr = \hFF THEN <<ERROR>>
              ELSE <<>>
        \* a complete character is output
        idx == Bits(s2, 28, 4) - 1
        inb == s2 = ZeroWord \/ idx \in 0..2
        done == s2 # ZeroWord /\ inb
                /\ Bits(s2, 24, 4) >= euc.nchars[idx + 1]
    IN [st  |-> [st EXCEPT !.s0 = IF done THEN ZeroWord ELSE s2],
        out |-> o1 \o o2 \o (IF done THEN <<euc_to_ucs(euc, s2)>> ELSE <<>>),
        ok  |-> inb]

read_euc(euc, st, input_chr) ==
    LET \* a continuation byte, or ERROR for the interrupted character
        bad == st.s0 # ZeroWord /\ (input_chr < \hA1 \/ input_chr = \hFF)
        s1 == IF st.s0 = ZeroWord THEN st.s0
              ELSE IF bad THEN ZeroWord
              ELSE FromBytes((Bits(st.s0, 24, 8) + 1) % 256,
                             Bits(st.s0, 8, 8), Bits(st.s0, 0, 8), input_chr)
        o1 == IF bad THEN <<ERROR>> ELSE <<>>
        \* a byte met in the idle state
        idle == s1 = ZeroWord
        s2 == IF ~idle THEN s1
              ELSE IF input_chr < \h80 THEN s1
              ELSE IF input_chr = \h8E THEN FromBytes(\h20, 0, 0, 0)
              ELSE IF input_chr = \h8F THEN FromBytes(\h30, 0, 0, 0)
              ELSE IF input_chr < \hA1 \/ input_chr = \hFF THEN s1
              ELSE FromBytes(\h11, 0, 0, input_chr)
        o2 == IF ~idle THEN <<>>
              ELSE IF input_chr < \h80 THEN <<input_chr>>
              ELSE IF input_chr = \h8E \/ input_chr = \h8F THEN <<>>
              ELSE IF input_chr < \hA1 \/ input_chr = \hFF THEN <<ERROR>>
              ELSE <<>>
        \* a complete character is output
        idx == Bits(s2, 28, 4) - 1
        inb == s2 = ZeroWord \/ idx \in 0..2
        done == s2 # ZeroWord /\ inb
                /\ Bits(s2, 24, 4) >= euc.nchars[idx + 1]
    IN [st  |-> [st EXCEPT !.s0 = IF done THEN ZeroWord ELSE s2],
        out |-> o1 \o o2 \o (IF done THEN <<euc_to_ucs(euc, s2)>> ELSE <<>>),
        ok  |-> inb]

write_euc(euc, st, input_chr) ==
    IF input_chr = -1 THEN WrRes(st, <<>>, TRUE)
    ELSE IF input_chr < \h80 THEN WrRes(st, <<input_chr>>, TRUE)
    ELSE LET c == euc_from_ucs(euc, input_chr)
             cset == Bits(c, 28, 4)
             len == euc.nchars[cset]
             bytes == [i \in 1..len |-> Bits(c, 8 * (len - i), 8)]
         IN IF c = ZeroWord THEN WrRes(st, <<>>, FALSE)
            ELSE WrRes(st, (IF cset > 1 THEN <<\h8C + cset>> ELSE <<>>)
                           \o bytes, TRUE)

(***************************************************************************)
(* HZ (hz.c)                                                               *)
(***************************************************************************)
\* read_hz with the error case of the GB2312 mode leaving s1 as it is
read_hz_keep_pending(st, input_chr) ==
    LET s0 == Val(st.s0)
        s1 == Val(st.s1)
    IN
    IF s0 = 0
    THEN IF s1 # 0
         THEN [ st  |-> [s0 |-> IF input_chr = 123 THEN Wd(1) ELSE st.s0,
                         s1 |-> ZeroWord],
                out |-> IF input_chr = 126 THEN <<input_chr>> ELSE <<>>,
                ok  |-> s1 = 126 ]
         ELSE IF input_chr = 126
              THEN RdRes([st EXCEPT !.s1 = Wd(126)], <<>>)
              ELSE RdRes(st, <<input_chr>>)
    ELSE IF input_chr < \h21 \/ input_chr > \h7E
         THEN RdRes([s0 |-> ZeroWord, s1 |-> st.s1], <<ERROR>>)
         ELSE IF s1 = 0
              THEN RdRes([st EXCEPT !.s1 = Wd(input_chr)], <<>>)
              ELSE IF s1 = 126 /\ input_chr = 125
                   THEN RdRes([s0 |-> ZeroWord, s1 |-> ZeroWord], <<>>)
                   ELSE RdRes([st EXCEPT !.s1 = ZeroWord],
                          <<gb2312_to_unicode(s1 - \h21, input_chr - \h21)>>)

\* read_hz with the row and the column of a GB2312 pair exchanged
read_hz_swapped(st, input_chr) ==
    LET s0 == Val(st.s0)
        s1 == Val(st.s1)
    IN
    IF s0 = 0
    THEN IF s1 # 0
         THEN [ st  |-> [s0 |-> IF input_chr = 123 THEN Wd(1) ELSE st.s0,
                         s1 |-> ZeroWord],
                out |-> IF input_chr = 126 THEN <<input_chr>> ELSE <<>>,
                ok  |-> s1 = 126 ]
         ELSE IF input_chr = 126
              THEN RdRes([st EXCEPT !.s1 = Wd(126)], <<>>)
              ELSE RdRes(st, <<input_chr>>)
    ELSE IF input_chr < \h21 \/ input_chr > \h7E
         THEN RdRes([s0 |-> ZeroWord, s1 |-> ZeroWord], <<ERROR>>)
         ELSE IF s1 = 0
              THEN RdRes([st EXCEPT !.s1 = Wd(input_chr)], <<>>)
              ELSE IF s1 = 126 /\ input_chr = 125
                   THEN RdRes([s0 |-> ZeroWord, s1 |-> ZeroWord], <<>>)
                   ELSE RdRes([st EXCEPT !.s1 = ZeroWord],
                          <<gb2312_to_unicode(input_chr - \h21, s1 - \h21)>>)

read_hz(st, input_chr) ==
    LET s0 == Val(st.s0)
        s1 == Val(st.s1)
    IN
    IF s0 = 0
    THEN IF s1 # 0
         THEN [ st  |-> [s0 |-> IF input_chr = 123 THEN Wd(1) ELSE st.s0,
                         s1 |-> ZeroWord],
                out |-> IF input_chr = 126 THEN <<input_chr>> ELSE <<>>,
                ok  |-> s1 = 126 ]
         ELSE IF input_chr = 126
              THEN RdRes([st EXCEPT !.s1 = Wd(126)], <<>>)
              ELSE RdRes(st, <<input_chr>>)
    ELSE IF input_chr < \h21 \/ input_chr > \h7E
         THEN RdRes([s0 |-> ZeroWord, s1 |-> ZeroWord], <<ERROR>>)
         ELSE IF s1 = 0
              THEN RdRes([st EXCEPT !.s1 = Wd(input_chr)], <<>>)
              ELSE IF s1 = 126 /\ input_chr = 125
                   THEN RdRes([s0 |-> ZeroWord, s1 |-> ZeroWord], <<>>)
                   ELSE RdRes([st EXCEPT !.s1 = ZeroWord],
                          <<gb2312_to_unicode(s1 - \h21, input_chr - \h21)>>)

\* write_hz with the write() of -1 leaving the mode as it is
write_hz_keep_mode(st, input_chr) ==
    LET isgb == input_chr >= \h80 /\ TabHas(gb2312_table, input_chr)
        desired_state == IF input_chr < \h80 THEN 0 ELSE 1
        switch == IF Val(st.s0) # desired_state
                  THEN <<126, IF desired_state = 1 THEN 123 ELSE 125>>
                  ELSE <<>>
        st2 == [st EXCEPT !.s0 = Wd(desired_state)]
    IN
    IF input_chr >= \h80 /\ ~isgb THEN WrRes(st, <<>>, FALSE)
    ELSE IF input_chr < 0 THEN WrRes(st, switch, TRUE)
    ELSE IF desired_state = 1
         THEN LET e == TabFrom(gb2312_table, input_chr) IN
              WrRes(st2, switch \o <<\h21 + e[1], \h21 + e[2]>>, TRUE)
         ELSE WrRes(st2, switch \o <<input_chr>>, TRUE)

\* write_hz with ~{ emitted for every switch of the mode
write_hz_one_switch(st, input_chr) ==
    LET isgb == input_chr >= \h80 /\ TabHas(gb2312_table, input_chr)
        desired_state == IF input_chr < \h80 THEN 0 ELSE 1
        switch == IF Val(st.s0) # desired_state THEN <<126, 123>> ELSE <<>>
        st2 == [st EXCEPT !.s0 = Wd(desired_state)]
    IN
    IF input_chr >= \h80 /\ ~isgb THEN WrRes(st, <<>>, FALSE)
    ELSE IF input_chr < 0 THEN WrRes(st2, switch, TRUE)
    ELSE IF desired_state = 1
         THEN LET e == TabFrom(gb2312_table, input_chr) IN
              WrRes(st2, switch \o <<\h21 + e[1], \h21 + e[2]>>, TRUE)
         ELSE WrRes(st2, switch \o <<input_chr>>, TRUE)

write_hz(st, input_chr) ==
    LET isgb == input_chr >= \h80 /\ TabHas(gb2312_table, input_chr)
        desired_state == IF input_chr < \h80 THEN 0 ELSE 1
        switch == IF Val(st.s0) # desired_state
                  THEN <<126, IF desired_state = 1 THEN 123 ELSE 125>>
                  ELSE <<>>
        st2 == [st EXCEPT !.s0 = Wd(desired_state)]
    IN
    IF input_chr >= \h80 /\ ~isgb THEN WrRes(st, <<>>, FALSE)
    ELSE IF input_chr < 0 THEN WrRes(st2, switch, TRUE)
    ELSE IF desired_state = 1
         THEN LET e == TabFrom(gb2312_table, input_chr) IN
              WrRes(st2, switch \o <<\h21 + e[1], \h21 + e[2]>>, TRUE)
         ELSE WrRes(st2, switch \o <<input_chr>>, TRUE)


(***************************************************************************)
(* UTF-16 (utf16.c).  A variant is its initial s0: the byte orders allowed.*)
(***************************************************************************)
utf16_bigendian == <<2, 0>>
utf16_littleendian == <<1, 0>>
utf16_variable_endianness == <<3, 0>>

\* the surrogate stage shared by read_utf16 and read_utf7: `high' is the
\* stored high surrogate or 0; the result is <<new high, emitted>>
Surrogates(high, hw) ==
    IF high # 0
    THEN IF hw < \hDC00 \/ hw >= \hE000
         THEN <<0, <<ERROR>>>>
         ELSE <<0, <<(hw % 1024) + (high % 1024) * 1024 + \h10000>>>>
    ELSE IF hw >= \hDC00 /\ hw < \hE000 THEN <<0, <<ERROR>>>>
    ELSE IF hw >= \hD800 /\ hw < \hDC00 THEN <<hw, <<>>>>
    ELSE <<0, <<hw>>>>

read_utf16(utf, st, input_chr) ==
    LET s0a == IF st.s0 = ZeroWord THEN utf ELSE st.s0 IN
    IF st.s1 = ZeroWord
    THEN RdRes([s0 |-> s0a, s1 |-> Wd(\h100 + input_chr)], <<>>)
    ELSE
    LET hw0 == (Val(st.s1) % 256) * 256 + input_chr
        first == Bits(s0a, 18, 1) = 0
        s0b == SetBits(s0a, 18, 1, 1)
        bebom == first /\ hw0 = \hFEFF /\ Bits(s0b, 17, 1) = 1
        lebom == first /\ ~bebom /\ hw0 = \hFFFE /\ Bits(s0b, 16, 1) = 1
        s0c == IF bebom THEN SetBits(s0b, 16, 1, 0)
               ELSE IF lebom THEN SetBits(s0b, 17, 1, 0)
               ELSE IF first /\ Bits(s0b, 16, 2) = 3
                    THEN SetBits(s0b, 16, 1, 0)
               ELSE s0b
        hw == IF Bits(s0c, 16, 1) = 1
              THEN (hw0 \div 256) + (hw0 % 256) * 256
              ELSE hw0
        sg == Surrogates(s0c[2], hw)
    IN IF bebom \/ lebom
       THEN RdRes([s0 |-> s0c, s1 |-> ZeroWord], <<>>)
       ELSE RdRes([s0 |-> <<s0c[1], sg[1]>>, s1 |-> ZeroWord], sg[2])

\* emithl with the two byte orders exchanged
emithl_swapped(s0, hw) ==
    IF Bits(s0, 17, 1) = 1
    THEN <<hw % 256, (hw \div 256) % 256>>
    ELSE <<(hw \div 256) % 256, hw % 256>>

emithl(s0, hw) ==
    IF Bits(s0, 17, 1) = 1
    THEN <<(hw \div 256) % 256, hw % 256>>
    ELSE <<hw % 256, (hw \div 256) % 256>>

\* write_utf16 with the byte order mark before every character
write_utf16_bom_each_call(utf, st, input_chr) ==
    IF input_chr < 0 THEN WrRes(st, <<>>, TRUE)
    ELSE IF (input_chr >= \hD800 /\ input_chr < \hE000)
            \/ input_chr >= \h110000
    THEN WrRes(st, <<>>, FALSE)
    ELSE LET bom == emithl(utf, \hFEFF)
             st2 == IF st.s0 = ZeroWord THEN [st EXCEPT !.s0 = Wd(1)] ELSE st
             c == input_chr - \h10000
         IN IF input_chr < \h10000
            THEN WrRes(st2, bom \o emithl(utf, input_chr), TRUE)
            ELSE WrRes(st2, bom
                     \o emithl(utf, \hD800 + ((c \div 1024) % 1024))
                     \o emithl(utf, \hDC00 + (c % 1024)), TRUE)

write_utf16(utf, st, input_chr) ==
    IF input_chr < 0 THEN WrRes(st, <<>>, TRUE)
    ELSE IF (input_chr >= \hD800 /\ input_chr < \hE000)
            \/ input_chr >= \h110000
    THEN WrRes(st, <<>>, FALSE)
    ELSE LET bom == IF st.s0 = ZeroWord THEN emithl(utf, \hFEFF) ELSE <<>>
             st2 == IF st.s0 = ZeroWord THEN [st EXCEPT !.s0 = Wd(1)] ELSE st
             c == input_chr - \h10000
         IN IF input_chr < \h10000
            THEN WrRes(st2, bom \o emithl(utf, input_chr), TRUE)
            ELSE WrRes(st2, bom
                     \o emithl(utf, \hD800 + ((c \div 1024) % 1024))
                     \o emithl(utf, \hDC00 + (c % 1024)), TRUE)

(***************************************************************************)
(* UTF-7 (utf7.c)                                                          *)
(***************************************************************************)
utf7_ascii_properties ==
    << 2,2,2,2,2,2,2,2,2,2,2,2,2,2,2,2,2,2,2,2,2,2,2,2,2,2,2,2,2,2,2,2,
       3,2,2,2,2,2,2,1,1,1,2,4,1,1,1,5,5,5,5,5,5,5,5,5,5,5,1,2,2,2,2,1,
       2,5,5,5,5,5,5,5,5,5,5,5,5,5,5,5,5,5,5,5,5,5,5,5,5,5,5,2,0,2,2,2,
       2,5,5,5,5,5,5,5,5,5,5,5,5,5,5,5,5,5,5,5,5,5,5,5,5,5,5,2,2,2,0,0 >>

SET_D(c) == c >= 0 /\ c < \h80 /\ utf7_ascii_properties[c + 1] % 2 = 1
SET_O(c) == c >= 0 /\ c < \h80 /\ (utf7_ascii_properties[c + 1] \div 2) % 2 = 1
\* SET_B testing the bit of Set D
SET_B_as_D(c) == c >= 0 /\ c < \h80 /\ utf7_ascii_properties[c + 1] % 2 = 1
SET_B(c) == c >= 0 /\ c < \h80 /\ (utf7_ascii_properties[c + 1] \div 4) % 2 = 1

\* base64_value with the values of + and / exchanged
base64_value_swapped(c) ==
    IF c >= 65 /\ c <= 90 THEN c - 65
    ELSE IF c >= 97 /\ c <= 122 THEN c - 97 + 26
    ELSE IF c >= 48 /\ c <= 57 THEN c - 48 + 52
    ELSE IF c = 43 THEN 63 ELSE 62

base64_value(c) ==
    IF c >= 65 /\ c <= 90 THEN c - 65
    ELSE IF c >= 97 /\ c <= 122 THEN c - 97 + 26
    ELSE IF c >= 48 /\ c <= 57 THEN c - 48 + 52
    ELSE IF c = 43 THEN 62 ELSE 63

\* base64_chars[v]
base64_chars(v) ==
    IF v < 26 THEN 65 + v
    ELSE IF v < 52 THEN 97 + (v - 26)
    ELSE IF v < 62 THEN 48 + (v - 52)
    ELSE IF v = 62 THEN 43 ELSE 47

read_utf7(st, input_chr) ==
    LET s0 == Val(st.s0) IN
    IF s0 = 0
    THEN IF input_chr = 43
         THEN RdRes([st EXCEPT !.s0 = Wd(2)], <<>>)
         ELSE RdRes(st, <<input_chr>>)
    ELSE IF ~SET_B(input_chr)
    THEN RdRes([st EXCEPT !.s0 = ZeroWord],
               IF input_chr # 45 THEN <<input_chr>>
               ELSE IF s0 = 2 THEN <<43>> ELSE <<>>)
    ELSE
    LET acc == (IF s0 = 2 THEN 1 ELSE s0) * 64 + base64_value(input_chr) IN
    IF acc < \h10000
    THEN RdRes([st EXCEPT !.s0 = Wd(acc)], <<>>)
    ELSE
    LET hw == IF (acc \div \h100000) % 2 = 1 THEN (acc \div 16) % \h10000
              ELSE IF (acc \div \h40000) % 2 = 1 THEN (acc \div 4) % \h10000
              ELSE acc % \h10000
        rest == IF (acc \div \h100000) % 2 = 1 THEN (acc % 16) + 16
                ELSE IF (acc \div \h40000) % 2 = 1 THEN (acc % 4) + 4
                ELSE 1
        sg == Surrogates(Val(st.s1), hw)
    IN RdRes([s0 |-> Wd(rest), s1 |-> Wd(sg[1])], sg[2])

\* the `while (state->s1 >= 6)' loop of write_utf7
RECURSIVE utf7_base64_out(_, _, _)
utf7_base64_out(s0, s1, out) ==
    IF s1 < 6 THEN [s0 |-> s0, s1 |-> s1, out |-> out]
    ELSE LET topbit == Pow2(s1 - 6) IN
         utf7_base64_out((s0 % topbit) + topbit, s1 - 6,
             Append(out, base64_chars((s0 \div topbit) % 64)))

\* write_utf7 is declared `static void' and installed as the int-returning
\* write member: no call of it returns a defined value
UndefinedReturn == BOOLEAN

write_utf7(conservative, st, input_chr) ==
    LET s0 == Val(st.s0)
        s1 == Val(st.s1)
    IN
    IF (input_chr >= \hD800 /\ input_chr < \hE000) \/ input_chr >= \h110000
    THEN [st |-> st, out |-> <<ERROR>>, rets |-> UndefinedReturn,
     ok |-> TRUE]
    ELSE IF input_chr = -1 \/ SET_D(input_chr)
            \/ (~conservative /\ SET_O(input_chr))
    THEN LET flush == IF s0 # 0
                      THEN <<base64_chars((s0 * Pow2(6 - s1)) % 64), 45>>
                      ELSE <<>>
         IN [st   |-> IF s0 # 0 THEN charset_init_state ELSE st,
             out  |-> flush \o (IF input_chr # -1 THEN <<input_chr>>
                                ELSE <<>>),
             rets |-> UndefinedReturn,
     ok |-> TRUE]
    ELSE
    LET c == input_chr - \h10000
        hws == IF input_chr < \h10000 THEN <<input_chr>>
               ELSE <<\hD800 + ((c \div 1024) % 1024), \hDC00 + (c % 1024)>>
        plus == IF s0 = 0 THEN <<43>> ELSE <<>>
        b0 == IF s0 = 0 THEN 1 ELSE s0
        b1 == IF s0 = 0 THEN 0 ELSE s1
        h1 == utf7_base64_out(b0 * \h10000 + hws[1], b1 + 16, plus)
        h2 == IF Len(hws) = 2
              THEN utf7_base64_out(h1.s0 * \h10000 + hws[2], h1.s1 + 16,
                                   h1.out)
              ELSE h1
    IN [st  |-> [s0 |-> Wd(h2.s0), s1 |-> Wd(h2.s1)], out |-> h2.out,
        rets |-> UndefinedReturn,
     ok |-> TRUE]


(***************************************************************************)
(* Single-byte charsets (sbcs.c).  The 256-entry tables (sbcsdat.c) are    *)
(* data: a table is given by `lim' (bytes below it map to themselves),     *)
(* `kana' (A1..DF map to U+FF61..U+FF9F) and `ovr', the sampled entries    *)
(* <<byte, ucs>> that differ; every other byte is ERROR.                   *)
(***************************************************************************)
sbcsdata_CS_ASCII == [lim |-> \h80, kana |-> FALSE, ovr |-> {}]
sbcsdata_CS_ISO8859_1 == [lim |-> \h100, kana |-> FALSE, ovr |-> {}]
sbcsdata_CS_ISO8859_15 ==
    [lim |-> \h100, kana |-> FALSE,
     ovr |-> { <<\hA4, \h20AC>>, <<\hA6, \h160>>, <<\hA8, \h161>>,
               <<\hB4, \h17D>>, <<\hB8, \h17E>>, <<\hBC, \h152>>,
               <<\hBD, \h153>>, <<\hBE, \h178>> }]
sbcsdata_CS_JISX0201 ==
    [lim |-> \h80, kana |-> TRUE,
     ovr |-> { <<\h5C, \hA5>>, <<\h7E, \h203E>> }]

sbcs_to_unicode(sd, input_chr) ==
    IF \E e \in sd.ovr : e[1] = input_chr
    THEN (CHOOSE e \in sd.ovr : e[1] = input_chr)[2]
    ELSE IF sd.kana /\ input_chr >= \hA1 /\ input_chr <= \hDF
    THEN input_chr + (\hFF61 - \hA1)
    ELSE IF input_chr < sd.lim THEN input_chr
    ELSE ERROR

read_sbcs(sd, st, input_chr) == RdRes(st, <<sbcs_to_unicode(sd, input_chr)>>)

\* the binary search of ucs2sbcs finds the byte whose entry is input_chr
sbcs_from_unicode(sd, input_chr) ==
    IF \E e \in sd.ovr : e[2] = input_chr
    THEN (CHOOSE e \in sd.ovr : e[2] = input_chr)[1]
    ELSE IF sd.kana /\ input_chr >= \hFF61 /\ input_chr <= \hFF9F
    THEN input_chr - (\hFF61 - \hA1)
    ELSE IF input_chr >= 0 /\ input_chr < sd.lim
            /\ ~(\E e \in sd.ovr : e[1] = input_chr)
            /\ ~(sd.kana /\ input_chr >= \hA1 /\ input_chr <= \hDF)
    THEN input_chr
    ELSE ERROR

write_sbcs(sd, st, input_chr) ==
    IF input_chr = -1 THEN WrRes(st, <<>>, TRUE)
    ELSE LET ret == sbcs_from_unicode(sd, input_chr) IN
         IF ret = ERROR THEN WrRes(st, <<>>, FALSE)
         ELSE WrRes(st, <<ret>>, TRUE)

(***************************************************************************)
(* UTF-8 (utf8.c).  Decoder state, in the low 26 bits of s0: 0 when idle,  *)
(* else bits 20:0 the value so far, bits 23:21 the length of the sequence, *)
(* bits 25:24 the continuation bytes still expected.                       *)
(***************************************************************************)
utf8_pending(len, rem, val) == <<rem * 256 + len * 32 + (val \div Half),
                                 val % Half>>

utf8_idle(st, input_chr) ==
    IF input_chr < \h80 THEN RdRes(st, <<input_chr>>)
    ELSE IF input_chr >= \hC0 /\ input_chr <= \hDF
    THEN RdRes([st EXCEPT !.s0 = utf8_pending(2, 1, input_chr % 32)], <<>>)
    ELSE IF input_chr >= \hE0 /\ input_chr <= \hEF
    THEN RdRes([st EXCEPT !.s0 = utf8_pending(3, 2, input_chr % 16)], <<>>)
    ELSE IF input_chr >= \hF0 /\ input_chr <= \hF7
    THEN RdRes([st EXCEPT !.s0 = utf8_pending(4, 3, input_chr % 8)], <<>>)
    ELSE RdRes(st, <<ERROR>>)

read_utf8(st, input_chr) ==
    IF st.s0 = ZeroWord THEN utf8_idle(st, input_chr)
    ELSE
    LET len == Bits(st.s0, 21, 3)
        rem == Bits(st.s0, 24, 2)
        val == Bits(st.s0, 16, 5) * Half + st.s0[2]
        nv  == val * 64 + (input_chr % 64)
        bad == (len = 2 /\ nv < \h80) \/ (len = 3 /\ nv < \h800)
               \/ (len = 4 /\ nv < \h10000)
               \/ (nv >= \hD800 /\ nv < \hE000)
    IN
    IF input_chr >= \h80 /\ input_chr <= \hBF
    THEN IF rem > 1
         THEN RdRes([st EXCEPT !.s0 = utf8_pending(len, rem - 1, nv)], <<>>)
         ELSE RdRes([st EXCEPT !.s0 = ZeroWord],
                    <<IF bad THEN ERROR ELSE nv>>)
    ELSE LET r == utf8_idle([st EXCEPT !.s0 = ZeroWord], input_chr) IN
         [r EXCEPT !.out = <<ERROR>> \o r.out]

write_utf8(st, input_chr) ==
    IF input_chr = -1 THEN WrRes(st, <<>>, TRUE)
    ELSE IF input_chr < \h80 THEN WrRes(st, <<input_chr>>, TRUE)
    ELSE IF input_chr < \h800
    THEN WrRes(st, <<\hC0 + (input_chr \div 64),
                     \h80 + (input_chr % 64)>>, TRUE)
    ELSE IF input_chr >= \hD800 /\ input_chr < \hE000
    THEN WrRes(st, <<>>, FALSE)
    ELSE IF input_chr < \h10000
    THEN WrRes(st, <<\hE0 + (input_chr \div 4096),
                     \h80 + ((input_chr \div 64) % 64),
                     \h80 + (input_chr % 64)>>, TRUE)
    ELSE IF input_chr < \h110000
    THEN WrRes(st, <<\hF0 + (input_chr \div 262144),
                     \h80 + ((input_chr \div 4096) % 64),
                     \h80 + ((input_chr \div 64) % 64),
                     \h80 + (input_chr % 64)>>, TRUE)
    ELSE WrRes(st, <<>>, FALSE)

(***************************************************************************)
(* ISO 2022 subsets (iso2022s.c).  C strings are tuples of character codes;*)
(* At(str, k) is str[k] in C, the terminating NUL included.                *)
(***************************************************************************)
SO == 14
SI == 15
ESC == 27

At(str, k) == IF k < Len(str) THEN str[k + 1] ELSE 0

\* !memcmp(a, b, n)
PrefixEq(a, b, n) == \A k \in 0..(n - 1) : At(a, k) = At(b, k)

iso2022jp_to_ucs(subcharset, bytes) ==
    CASE subcharset = 1 ->
           IF bytes = Wd(\h5C) THEN \hA5
           ELSE IF bytes = Wd(\h7E) THEN \h203E
           ELSE Val(bytes)
      [] subcharset = 0 -> Val(bytes)
      [] subcharset = 2 ->
           jisx0208_to_unicode(Bits(bytes, 8, 8) - \h21,
                               Bits(bytes, 0, 8) - \h21)
      [] OTHER -> ERROR

iso2022jp_from_ucs(ucs) ==
    IF ucs < \h80 THEN [ok |-> TRUE, subcharset |-> 0, bytes |-> Wd(ucs)]
    ELSE IF ucs = \hA5 \/ ucs = \h203E
    THEN [ok |-> TRUE, subcharset |-> 1,
          bytes |-> Wd(IF ucs = \hA5 THEN \h5C ELSE \h7E)]
    ELSE IF TabHas(jisx0208_table, ucs)
    THEN LET e == TabFrom(jisx0208_table, ucs) IN
         [ok |-> TRUE, subcharset |-> 2,
          bytes |-> FromBytes(0, 0, e[1] + \h21, e[2] + \h21)]
    ELSE [ok |-> FALSE, subcharset |-> 0, bytes |-> ZeroWord]

iso2022jp_escapes ==
    << [sequence |-> <<27, 36, 64>>, andbits |-> <<\hFFFF, \hFFC0>>,
        xorbits |-> <<0, 2>>, container |-> -1, subcharset |-> -1],
       [sequence |-> <<27, 36, 66>>, andbits |-> <<\hFFFF, \hFFC0>>,
        xorbits |-> <<0, 2>>, container |-> 0, subcharset |-> 2],
       [sequence |-> <<27, 40, 66>>, andbits |-> <<\hFFFF, \hFFC0>>,
        xorbits |-> <<0, 0>>, container |-> 0, subcharset |-> 0],
       [sequence |-> <<27, 40, 74>>, andbits |-> <<\hFFFF, \hFFC0>>,
        xorbits |-> <<0, 1>>, container |-> 0, subcharset |-> 1] >>

iso2022jp ==
    [name |-> "JP", escapes |-> iso2022jp_escapes, nbytes |-> <<1, 1, 2>>,
     reset |-> <<3>>, s1 |-> <<\h8000, 0>>, initial_sequence |-> <<>>,
     eightbit |-> FALSE]

iso2022kr_to_ucs(subcharset, bytes) ==
    CASE subcharset = 0 -> Val(bytes)
      [] subcharset = 1 ->
           ksx1001_to_unicode(Bits(bytes, 8, 8) - \h21,
                              Bits(bytes, 0, 8) - \h21)
      [] OTHER -> ERROR

iso2022kr_from_ucs(ucs) ==
    IF ucs < \h80 THEN [ok |-> TRUE, subcharset |-> 0, bytes |-> Wd(ucs)]
    ELSE IF TabHas(ksx1001_table, ucs)
    THEN LET e == TabFrom(ksx1001_table, ucs) IN
         [ok |-> TRUE, subcharset |-> 1,
          bytes |-> FromBytes(0, 0, e[1] + \h21, e[2] + \h21)]
    ELSE [ok |-> FALSE, subcharset |-> 0, bytes |-> ZeroWord]

iso2022kr_escapes ==
    << [sequence |-> <<14>>, andbits |-> <<\h8FFF, \hFFFF>>,
        xorbits |-> <<\h1000, 0>>, container |-> -1, subcharset |-> -1],
       [sequence |-> <<15>>, andbits |-> <<\h8FFF, \hFFFF>>,
        xorbits |-> <<0, 0>>, container |-> 0, subcharset |-> 0],
       [sequence |-> <<27, 36, 41, 67>>, andbits |-> <<\hFFFF, \hF03F>>,
        xorbits |-> <<0, \h40>>, container |-> 1, subcharset |-> 1] >>

\* iso2022kr without its initial sequence
iso2022kr_no_header ==
    [name |-> "KR", escapes |-> iso2022kr_escapes, nbytes |-> <<1, 2>>,
     reset |-> <<2>>, s1 |-> <<\h8000, \h40>>,
     initial_sequence |-> <<>>, eightbit |-> FALSE]

iso2022kr ==
    [name |-> "KR", escapes |-> iso2022kr_escapes, nbytes |-> <<1, 2>>,
     reset |-> <<2>>, s1 |-> <<\h8000, \h40>>,
     initial_sequence |-> <<27, 36, 41, 67>>, eightbit |-> FALSE]

iso2022s_to_ucs(iso, subcharset, bytes) ==
    IF iso.name = "JP" THEN iso2022jp_to_ucs(subcharset, bytes)
    ELSE iso2022kr_to_ucs(subcharset, bytes)

iso2022s_from_ucs(iso, ucs) ==
    IF iso.name = "JP" THEN iso2022jp_from_ucs(ucs)
    ELSE iso2022kr_from_ucs(ucs)

\* the incomplete character is dropped (and an SS2/SS3 container left)
iso2022s_clear_char(st) ==
    LET s1a == SetBits(st.s1, 24, 4, 0) IN
    [s0 |-> FromBytes(Bits(st.s0, 24, 8), 0, 0, 0),
     s1 |-> IF Bits(s1a, 29, 2) # 0 THEN SetBits(s1a, 29, 2, 0) ELSE s1a]

\* the narrowing loop over the sorted escapes: the final value of i
RECURSIVE iso2022s_narrow(_, _, _, _, _)
iso2022s_narrow(iso, oi, n, input_chr, j) ==
    IF j < Len(iso.escapes)
       /\ PrefixEq(iso.escapes[j + 1].sequence, iso.escapes[oi + 1].sequence, n)
       /\ At(iso.escapes[j + 1].sequence, n) < input_chr
    THEN iso2022s_narrow(iso, oi, n, input_chr, j + 1)
    ELSE j

\* every escapes[] element and sequence[] character read while matching
\* lies inside its array
iso2022s_in_bounds(iso, oi, n) ==
    /\ oi < Len(iso.escapes)
    /\ \A j \in oi..(Len(iso.escapes) - 1) :
          n <= Len(iso.escapes[j + 1].sequence)

\* a read_iso2022s that applies the XOR mask before the AND mask
read_iso2022s_xor_first(iso, st0, input_chr) ==
    LET st == IF Bits(st0.s1, 31, 1) = 0 THEN [st0 EXCEPT !.s1 = iso.s1]
              ELSE st0
        mid == Bits(st.s1, 24, 4) # 0
        stc == IF mid THEN iso2022s_clear_char(st) ELSE st
        err == IF mid THEN <<ERROR>> ELSE <<>>
    IN
    IF Bits(st.s0, 24, 8) # 0 \/ input_chr \in {SO, SI, ESC}
    THEN
      LET n == Bits(st.s0, 24, 3)
          oi == Bits(st.s0, 27, 5)
          inb == iso2022s_in_bounds(iso, oi, n)
          i == iso2022s_narrow(iso, oi, n, input_chr, oi)
          esc == iso.escapes[i + 1]
      IN
      IF ~inb THEN [st |-> st, out |-> <<>>, ok |-> FALSE]
      ELSE IF i >= Len(iso.escapes)
              \/ ~PrefixEq(esc.sequence, iso.escapes[oi + 1].sequence, n)
              \/ At(esc.sequence, n) # input_chr
      THEN RdRes([stc EXCEPT !.s0 = ZeroWord],
                 err \o SubSeq(iso.escapes[oi + 1].sequence, 1, n)
                     \o <<input_chr>>)
      ELSE IF At(esc.sequence, n + 1) = 0
      THEN RdRes([s0 |-> ZeroWord,
                  s1 |-> BitAnd(BitXor(stc.s1, esc.xorbits), esc.andbits)],
                 err)
      ELSE [st  |-> [stc EXCEPT !.s0 = FromBytes(i * 8 + (n + 1), 0, 0, 0)],
            out |-> err,
            ok  |-> i < 32 /\ n + 1 < 8]
    ELSE IF input_chr < \h21
            \/ (input_chr > \h7E /\ (~iso.eightbit \/ input_chr < \hA0))
    THEN RdRes(stc, err \o <<input_chr>>)
    ELSE
      LET cont0 == Bits(st.s1, 28, 3)
          wrong == iso.eightbit
                   /\ ((cont0 = 2 /\ input_chr < \h80)
                       \/ (cont0 # 0 /\ cont0 # 2 /\ input_chr >= \h80))
          sta == IF wrong THEN iso2022s_clear_char(st) ELSE st
          stb == IF iso.eightbit /\ cont0 = 0 /\ input_chr >= \h80
                 THEN [sta EXCEPT !.s1 = SetBits(sta.s1, 29, 1, 1)]
                 ELSE sta
          chr == FromBytes(Bits(stb.s0, 16, 8), Bits(stb.s0, 8, 8),
                           Bits(stb.s0, 0, 8), input_chr % 128)
          chrlen == Bits(stb.s1, 24, 4) + 1
          cont1 == Bits(stb.s1, 28, 3)
          cont == IF cont1 > 1 THEN cont1 \div 2 ELSE cont1
          subcharset == Bits(stb.s1, 6 * cont, 6)
          inb == subcharset <= Len(iso.nbytes)
          bytes == At(iso.nbytes, subcharset)
          done == chrlen >= bytes
          s1d == IF done /\ Bits(stb.s1, 29, 2) # 0
                 THEN SetBits(stb.s1, 29, 2, 0) ELSE stb.s1
      IN
      IF ~inb THEN [st |-> st, out |-> <<>>, ok |-> FALSE]
      ELSE [st  |-> [s0 |-> IF done THEN ZeroWord ELSE chr,
                     s1 |-> SetBits(s1d, 24, 4,
                                    IF done THEN 0 ELSE chrlen % 16)],
            out |-> (IF wrong THEN <<ERROR>> ELSE <<>>)
                    \o (IF done
                        THEN <<iso2022s_to_ucs(iso, subcharset, chr)>>
                        ELSE <<>>),
            ok  |-> TRUE]

read_iso2022s(iso, st0, input_chr) ==
    LET st == IF Bits(st0.s1, 31, 1) = 0 THEN [st0 EXCEPT !.s1 = iso.s1]
              ELSE st0
        mid == Bits(st.s1, 24, 4) # 0
        stc == IF mid THEN iso2022s_clear_char(st) ELSE st
        err == IF mid THEN <<ERROR>> ELSE <<>>
    IN
    IF Bits(st.s0, 24, 8) # 0 \/ input_chr \in {SO, SI, ESC}
    THEN
      LET n == Bits(st.s0, 24, 3)
          oi == Bits(st.s0, 27, 5)
          inb == iso2022s_in_bounds(iso, oi, n)
          i == iso2022s_narrow(iso, oi, n, input_chr, oi)
          esc == iso.escapes[i + 1]
      IN
      IF ~inb THEN [st |-> st, out |-> <<>>, ok |-> FALSE]
      ELSE IF i >= Len(iso.escapes)
              \/ ~PrefixEq(esc.sequence, iso.escapes[oi + 1].sequence, n)
              \/ At(esc.sequence, n) # input_chr
      THEN RdRes([stc EXCEPT !.s0 = ZeroWord],
                 err \o SubSeq(iso.escapes[oi + 1].sequence, 1, n)
                     \o <<input_chr>>)
      ELSE IF At(esc.sequence, n + 1) = 0
      THEN RdRes([s0 |-> ZeroWord,
                  s1 |-> BitXor(BitAnd(stc.s1, esc.andbits), esc.xorbits)],
                 err)
      ELSE [st  |-> [stc EXCEPT !.s0 = FromBytes(i * 8 + (n + 1), 0, 0, 0)],
            out |-> err,
            ok  |-> i < 32 /\ n + 1 < 8]
    ELSE IF input_chr < \h21
            \/ (input_chr > \h7E /\ (~iso.eightbit \/ input_chr < \hA0))
    THEN RdRes(stc, err \o <<input_chr>>)
    ELSE
      LET cont0 == Bits(st.s1, 28, 3)
          wrong == iso.eightbit
                   /\ ((cont0 = 2 /\ input_chr < \h80)
                       \/ (cont0 # 0 /\ cont0 # 2 /\ input_chr >= \h80))
          sta == IF wrong THEN iso2022s_clear_char(st) ELSE st
          stb == IF iso.eightbit /\ cont0 = 0 /\ input_chr >= \h80
                 THEN [sta EXCEPT !.s1 = SetBits(sta.s1, 29, 1, 1)]
                 ELSE sta
          chr == FromBytes(Bits(stb.s0, 16, 8), Bits(stb.s0, 8, 8),
                           Bits(stb.s0, 0, 8), input_chr % 128)
          chrlen == Bits(stb.s1, 24, 4) + 1
          cont1 == Bits(stb.s1, 28, 3)
          cont == IF cont1 > 1 THEN cont1 \div 2 ELSE cont1
          subcharset == Bits(stb.s1, 6 * cont, 6)
          inb == subcharset <= Len(iso.nbytes)
          bytes == At(iso.nbytes, subcharset)
          done == chrlen >= bytes
          s1d == IF done /\ Bits(stb.s1, 29, 2) # 0
                 THEN SetBits(stb.s1, 29, 2, 0) ELSE stb.s1
      IN
      IF ~inb THEN [st |-> st, out |-> <<>>, ok |-> FALSE]
      ELSE [st  |-> [s0 |-> IF done THEN ZeroWord ELSE chr,
                     s1 |-> SetBits(s1d, 24, 4,
                                    IF done THEN 0 ELSE chrlen % 16)],
            out |-> (IF wrong THEN <<ERROR>> ELSE <<>>)
                    \o (IF done
                        THEN <<iso2022s_to_ucs(iso, subcharset, chr)>>
                        ELSE <<>>),
            ok  |-> TRUE]


RO == \h80

\* the finalising loop over iso->reset: escapes that change s1 are emitted
RECURSIVE iso2022s_reset(_, _, _, _)
iso2022s_reset(iso, i, s1, out) ==
    IF At(iso.reset, i) = 0 THEN [s1 |-> s1, out |-> out]
    ELSE LET esc == iso.escapes[At(iso.reset, i)]
             new == BitXor(BitAnd(s1, esc.andbits), esc.xorbits)
         IN iso2022s_reset(iso, i + 1, new,
                IF new # s1 THEN out \o esc.sequence ELSE out)

\* a container of -1 has every bit set, RO among them
iso2022s_preferred(esc) == esc.container >= 0 /\ esc.container < RO

\* a write_iso2022s that emits the designation before every character
write_iso2022s_always_designate(iso, st, input_chr) ==
    LET fu == iso2022s_from_ucs(iso, input_chr)
        fresh == Bits(st.s1, 31, 1) = 0
        s1a == IF fresh THEN iso.s1 ELSE st.s1
        o1 == IF fresh THEN iso.initial_sequence ELSE <<>>
    IN
    IF input_chr >= 0 /\ ~fu.ok THEN WrRes(st, <<>>, FALSE)
    ELSE IF input_chr = -1
    THEN LET r == iso2022s_reset(iso, 0, s1a, o1) IN
         WrRes([st EXCEPT !.s1 = r.s1], r.out, TRUE)
    ELSE
    LET i == CHOOSE k \in 1..Len(iso.escapes) :
                 /\ iso.escapes[k].subcharset = fu.subcharset
                 /\ iso2022s_preferred(iso.escapes[k])
                 /\ \A m \in 1..(k - 1) :
                        ~(iso.escapes[m].subcharset = fu.subcharset
                          /\ iso2022s_preferred(iso.escapes[m]))
        esc == iso.escapes[i]
        cont == esc.container
        designate == TRUE
        s1b == IF designate
               THEN BitXor(BitAnd(s1a, esc.andbits), esc.xorbits) ELSE s1a
        o2 == IF designate THEN esc.sequence ELSE <<>>
        topbit == IF cont <= 1 /\ iso.eightbit /\ cont = 1
                     /\ Bits(s1b, 28, 3) = 0
                  THEN \h80 ELSE 0
        shift == cont <= 1 /\ topbit = 0 /\ Bits(s1b, 28, 3) # cont
        s1c == IF shift THEN SetBits(s1b, 28, 3, cont) ELSE s1b
        o3 == IF cont > 1 THEN <<ESC, 76 + cont>>
              ELSE IF shift THEN <<IF cont = 1 THEN SO ELSE SI>>
              ELSE <<>>
        len == At(iso.nbytes, fu.subcharset)
        data == [k \in 1..len |->
                    IF Bits(fu.bytes, 8 * (len - k), 8) >= topbit
                    THEN Bits(fu.bytes, 8 * (len - k), 8)
                    ELSE Bits(fu.bytes, 8 * (len - k), 8) + topbit]
    IN WrRes([st EXCEPT !.s1 = s1c], o1 \o o2 \o o3 \o data, TRUE)

write_iso2022s(iso, st, input_chr) ==
    LET fu == iso2022s_from_ucs(iso, input_chr)
        fresh == Bits(st.s1, 31, 1) = 0
        s1a == IF fresh THEN iso.s1 ELSE st.s1
        o1 == IF fresh THEN iso.initial_sequence ELSE <<>>
    IN
    IF input_chr >= 0 /\ ~fu.ok THEN WrRes(st, <<>>, FALSE)
    ELSE IF input_chr = -1
    THEN LET r == iso2022s_reset(iso, 0, s1a, o1) IN
         WrRes([st EXCEPT !.s1 = r.s1], r.out, TRUE)
    ELSE
    LET i == CHOOSE k \in 1..Len(iso.escapes) :
                 /\ iso.escapes[k].subcharset = fu.subcharset
                 /\ iso2022s_preferred(iso.escapes[k])
                 /\ \A m \in 1..(k - 1) :
                        ~(iso.escapes[m].subcharset = fu.subcharset
                          /\ iso2022s_preferred(iso.escapes[m]))
        esc == iso.escapes[i]
        cont == esc.container
        designate == Bits(s1a, 6 * cont, 6) # fu.subcharset
        s1b == IF designate
               THEN BitXor(BitAnd(s1a, esc.andbits), esc.xorbits) ELSE s1a
        o2 == IF designate THEN esc.sequence ELSE <<>>
        topbit == IF cont <= 1 /\ iso.eightbit /\ cont = 1
                     /\ Bits(s1b, 28, 3) = 0
                  THEN \h80 ELSE 0
        shift == cont <= 1 /\ topbit = 0 /\ Bits(s1b, 28, 3) # cont
        s1c == IF shift THEN SetBits(s1b, 28, 3, cont) ELSE s1b
        o3 == IF cont > 1 THEN <<ESC, 76 + cont>>
              ELSE IF shift THEN <<IF cont = 1 THEN SO ELSE SI>>
              ELSE <<>>
        len == At(iso.nbytes, fu.subcharset)
        data == [k \in 1..len |->
                    IF Bits(fu.bytes, 8 * (len - k), 8) >= topbit
                    THEN Bits(fu.bytes, 8 * (len - k), 8)
                    ELSE Bits(fu.bytes, 8 * (len - k), 8) + topbit]
    IN WrRes([st EXCEPT !.s1 = s1c], o1 \o o2 \o o3 \o data, TRUE)


(***************************************************************************)
(* Full ISO 2022 and X11 compound text (iso2022.c).                        *)
(***************************************************************************)
LS1 == 14
LS0 == 15
SS2 == \h8E
SS3 == \h8F

\* enum {S4, S6, M4, M6}
S4 == 0
S6 == 1
M4 == 2
M6 == 3

\* values of the `enable' field
CCS == 1
COS == 2
CPU == 3
CDC == 4
CDU == 5
CNU == 31

\* the single-byte tables the sub-charsets use besides those above: the
\* bytes up to A0 map to themselves and `ovr' samples the rest
Latin(ovr) == [lim |-> \hA1, kana |-> FALSE, ovr |-> ovr]
sbcsdata_CS_ISO8859_14 == Latin({ <<\hA1, \h1E02>>, <<\hD0, \h174>> })
sbcsdata_CS_BS4730 ==
    [lim |-> \h80, kana |-> FALSE, ovr |-> { <<\h23, \hA3>> }]
sbcsdata_CS_DEC_GRAPHICS ==
    [lim |-> \h5F, kana |-> FALSE,
     ovr |-> { <<\h60, \h25C6>>, <<\h71, \h2500>> }]
sbcsdata_CS_DEC_MCS ==
    Latin({ <<\hA8, \hA4>>, <<\hD7, \h152>>, <<\hF7, \h153>> })

null_dbcs_to_unicode(r, c) == ERROR

emacs_big5_1_to_unicode(r, c) ==
    LET s == r * 94 + c
        c2 == s % 157
    IN big5_to_unicode(s \div 157, IF c2 >= 64 THEN c2 + 34 ELSE c2)

emacs_big5_2_to_unicode(r, c) ==
    LET s == r * 94 + c
        c2 == s % 157
    IN big5_to_unicode((s \div 157) + 40, IF c2 >= 64 THEN c2 + 34 ELSE c2)

\* the result is [ok, p, r, c]; `assert' says whether assert(cc >= 64) held
unicode_to_emacs_big5(unicode) ==
    IF ~TabHas(big5_table, unicode)
    THEN [ok |-> FALSE, p |-> 0, r |-> 0, c |-> 0, assert |-> TRUE]
    ELSE LET e == TabFrom(big5_table, unicode)
             cc == IF e[2] >= 64 THEN e[2] - 34 ELSE e[2]
             s == e[1] * 157 + cc
             s2 == IF s >= 40 * 157 THEN s - 40 * 157 ELSE s
         IN [ok |-> TRUE, p |-> IF s >= 40 * 157 THEN 2 ELSE 1,
             r |-> s2 \div 94, c |-> s2 % 94,
             assert |-> (e[2] >= 64 => cc >= 64)]

\* rows of iso2022_subcharsets[]: a single-byte set, a double-byte set
\* (named by its conversion functions), or an empty set
Sb(type, f, enable, offset, base) ==
    [type |-> type, i |-> 0, f |-> f, enable |-> enable, offset |-> offset,
     kind |-> "sbcs", sbcs_base |-> base, dbcs |-> "none",
     to_dbcs_plane |-> 0]
Db(type, f, enable, offset, dbcs, plane) ==
    [type |-> type, i |-> 0, f |-> f, enable |-> enable, offset |-> offset,
     kind |-> "dbcs", sbcs_base |-> sbcsdata_CS_ASCII, dbcs |-> dbcs,
     to_dbcs_plane |-> plane]
Empty(type) ==
    [type |-> type, i |-> 0, f |-> 126, enable |-> CNU, offset |-> 0,
     kind |-> "none", sbcs_base |-> sbcsdata_CS_ASCII, dbcs |-> "none",
     to_dbcs_plane |-> 0]

iso2022_subcharsets ==
    << Sb(S4, 66, CCS, 0, sbcsdata_CS_ASCII),
       Sb(S6, 65, CCS, \h80, sbcsdata_CS_ISO8859_1),
       Sb(S6, 66, CCS, \h80, Latin({ <<\hA1, \h104>> })),
       Sb(S6, 67, CCS, \h80, Latin({ <<\hA1, \h126>> })),
       Sb(S6, 68, CCS, \h80, Latin({ <<\hA2, \h138>> })),
       Sb(S6, 70, CCS, \h80, Latin({ <<\hE1, \h3B1>> })),
       Sb(S6, 71, CCS, \h80, Latin({ <<\hC7, \h627>> })),
       Sb(S6, 72, CCS, \h80, Latin({ <<\hE0, \h5D0>> })),
       Sb(S6, 76, CCS, \h80, Latin({ <<\hB0, \h410>> })),
       Sb(S6, 77, CCS, \h80, Latin({ <<\hD0, \h11E>> })),
       Sb(S4, 73, CCS, \h80, sbcsdata_CS_JISX0201),
       Sb(S4, 74, CCS, 0, sbcsdata_CS_JISX0201),
       Db(M4, 65, CCS, -33, "gb2312", -1),
       Db(M4, 66, CCS, -33, "jisx0208", -1),
       Db(M4, 67, CCS, -33, "ksx1001", -1),
       Db(M4, 68, CCS, -33, "jisx0212", -1),
       Sb(S6, 84, COS, \h80, Latin({ <<\hA1, \hE01>> })),
       Sb(S6, 86, COS, \h80, Latin({ <<\hA2, \h112>> })),
       Sb(S6, 89, COS, \h80, Latin({ <<\hA1, \h201D>> })),
       Sb(S6, 95, COS, \h80, sbcsdata_CS_ISO8859_14),
       Sb(S6, 98, COS, \h80, sbcsdata_CS_ISO8859_15),
       Sb(S6, 102, COS, \h80, Latin({ <<\hAA, \h218>> })),
       Sb(S4, 65, COS, 0, sbcsdata_CS_BS4730),
       Db(M4, 71, COS, -33, "cns11643", 0),
       Db(M4, 72, COS, -33, "cns11643", 1),
       Db(M4, 73, COS, -33, "cns11643", 2),
       Db(M4, 74, COS, -33, "cns11643", 3),
       Db(M4, 75, COS, -33, "cns11643", 4),
       Db(M4, 76, COS, -33, "cns11643", 5),
       Db(M4, 77, COS, -33, "cns11643", 6),
       Sb(S4, 48, CPU, 0, sbcsdata_CS_DEC_GRAPHICS),
       Sb(S4, 60, CPU, \h80, sbcsdata_CS_DEC_MCS),
       Db(M4, 48, CPU, -33, "emacs_big5", 1),
       Db(M4, 49, CPU, -33, "emacs_big5", 2),
       Empty(S4),
       Empty(S6),
       Db(M4, 126, CNU, 0, "null_dbcs", -1),
       Db(M6, 126, CNU, 0, "null_dbcs", -1) >>

\* subcs->from_dbcs(r, c)
from_dbcs(subcs, r, c) ==
    CASE subcs.dbcs = "gb2312" -> gb2312_to_unicode(r, c)
      [] subcs.dbcs = "jisx0208" -> jisx0208_to_unicode(r, c)
      [] subcs.dbcs = "ksx1001" -> ksx1001_to_unicode(r, c)
      [] subcs.dbcs = "jisx0212" -> jisx0212_to_unicode(r, c)
      [] subcs.dbcs = "cns11643" ->
           cns11643_to_unicode(subcs.to_dbcs_plane, r, c)
      [] subcs.dbcs = "emacs_big5" ->
           IF subcs.to_dbcs_plane = 1 THEN emacs_big5_1_to_unicode(r, c)
           ELSE emacs_big5_2_to_unicode(r, c)
      [] OTHER -> null_dbcs_to_unicode(r, c)

\* subcs->to_dbcs: [ok, p, r, c, assert], p being the plane the planar
\* functions return and to_dbcs_plane for the others
to_dbcs(subcs, unicode) ==
    LET plain(tab) ==
            IF TabHas(tab, unicode)
            THEN [ok |-> TRUE, p |-> -1, r |-> TabFrom(tab, unicode)[1],
                  c |-> TabFrom(tab, unicode)[2], assert |-> TRUE]
            ELSE [ok |-> FALSE, p |-> 0, r |-> 0, c |-> 0, assert |-> TRUE]
    IN CASE subcs.dbcs = "gb2312" -> plain(gb2312_table)
         [] subcs.dbcs = "jisx0208" -> plain(jisx0208_table)
         [] subcs.dbcs = "ksx1001" -> plain(ksx1001_table)
         [] subcs.dbcs = "jisx0212" -> plain(jisx0212_table)
         [] subcs.dbcs = "cns11643" ->
              LET e == unicode_to_cns11643(unicode) IN
              IF e = <<>>
              THEN [ok |-> FALSE, p |-> -1, r |-> 0, c |-> 0,
                    assert |-> TRUE]
              ELSE [ok |-> TRUE, p |-> e[1], r |-> e[2], c |-> e[3],
                    assert |-> TRUE]
         [] subcs.dbcs = "emacs_big5" ->
              LET e == unicode_to_emacs_big5(unicode) IN
              IF e.ok THEN e ELSE [e EXCEPT !.p = -1]
         [] OTHER -> [ok |-> FALSE, p |-> 0, r |-> 0, c |-> 0,
                      assert |-> TRUE]

\* States, or "what we're currently accumulating"
IDLE == 0
SS2CHAR == 1
SS3CHAR == 2
ESCSEQ == 3
ESCDROP == 4
ESCPASS == 5
DOCSUTF8 == 6
DOCSCTEXT == 7

\* struct iso2022_mode
iso2022_all ==
    [enable_mask |-> {CCS, COS, CPU, CDC, CDU},
     ltype |-> S4, li |-> 0, lf |-> 66, rtype |-> S4, ri |-> 0, rf |-> 66]
iso2022_ctext ==
    [enable_mask |-> {CCS, CDC},
     ltype |-> S4, li |-> 0, lf |-> 66, rtype |-> S6, ri |-> 0, rf |-> 65]

\* the index of the first row of tab of that type and those bytes, or the
\* number of rows when there is none
FindRow(tab, type, ibyte, fbyte) ==
    LET hit == { k \in 1..Len(tab) : /\ tab[k].type = type
                                     /\ tab[k].i = ibyte
                                     /\ tab[k].f = fbyte }
    IN IF hit = {} THEN Len(tab) ELSE Min(hit) - 1

FindSubcharset(type, ibyte, fbyte) ==
    FindRow(iso2022_subcharsets, type, ibyte, fbyte)

\* the decoder's s1 as [gl, gr, g]: the locking shifts and the sub-charsets
\* of G0..G3, and back
iso2022_s1(w) ==
    [gl |-> w[1] \div 16384, gr |-> (w[1] \div 4096) % 4,
     g  |-> << w[2] % 128, (w[2] \div 128) % 128,
               (w[2] \div 16384) + (w[1] % 32) * 4, (w[1] \div 32) % 128 >>]
iso2022_mk_s1(r) ==
    << r.gl * 16384 + r.gr * 4096 + r.g[4] * 32 + (r.g[3] \div 4),
       (r.g[3] % 4) * 16384 + r.g[2] * 128 + r.g[1] >>

\* the row designate() settles on: an unknown set is replaced by the empty
\* set of its type
\* a designate() that falls back to the empty 94-set whatever the type
FindOrEmpty_s4(tab, type, ibyte, fbyte) ==
    IF FindRow(tab, type, ibyte, fbyte) < Len(tab)
    THEN FindRow(tab, type, ibyte, fbyte)
    ELSE FindRow(tab, S4, 0, 126)

FindOrEmpty(tab, type, ibyte, fbyte) ==
    IF FindRow(tab, type, ibyte, fbyte) < Len(tab)
    THEN FindRow(tab, type, ibyte, fbyte)
    ELSE FindRow(tab, type, 0, 126)

\* designate() on the decoded s1
designate(r, container, type, ibyte, fbyte) ==
    [r EXCEPT !.g[container + 1] =
                FindOrEmpty(iso2022_subcharsets, type, ibyte, fbyte)]

\* the state read_iso2022 sets up when s1 is 0
iso2022_start(mode) ==
    iso2022_mk_s1(
        designate(designate([gl |-> 0, gr |-> 1, g |-> <<0, 0, 0, 0>>],
                            0, mode.ltype, mode.li, mode.lf),
                  1, mode.rtype, mode.ri, mode.rf))

\* ENTER_MODE(m)
ENTER_MODE(s0, m) == <<(s0[1] % 8192) + m * 8192, s0[2]>>

\* do_utf8: read_utf8 on bits 25:0 of s0; acc is [s0, out]
do_utf8(acc, input_chr) ==
    LET r == read_utf8([s0 |-> <<acc.s0[1] % 1024, acc.s0[2]>>,
                        s1 |-> ZeroWord], input_chr)
    IN [s0 |-> <<(acc.s0[1] \div 1024) * 1024 + (r.st.s0[1] % 1024),
                 r.st.s0[2]>>,
        out |-> acc.out \o r.out]

\* docs_utf8, were the `%' of an ESC % that is not completed dropped
docs_utf8_drop_percent(st, input_chr) ==
    LET retstate == Bits(st.s0, 26, 2)
        a0 == [s0 |-> st.s0, out |-> <<>>]
        a1 == IF retstate >= 1 THEN do_utf8(a0, ESC) ELSE a0
        a2 == a1
        a3 == IF input_chr = ESC THEN a2 ELSE do_utf8(a2, input_chr)
    IN IF retstate = 1 /\ input_chr = 37
       THEN RdRes([st EXCEPT !.s0 = SetBits(st.s0, 26, 2, 2)], <<>>)
       ELSE IF retstate = 2 /\ input_chr = 64
       THEN RdRes([st EXCEPT !.s0 = ZeroWord],
                  IF <<st.s0[1] % 1024, st.s0[2]>> # ZeroWord
                  THEN <<ERROR>> ELSE <<>>)
       ELSE RdRes([st EXCEPT !.s0 =
                     SetBits(a3.s0, 26, 2, IF input_chr = ESC THEN 1 ELSE 0)],
                  a3.out)

docs_utf8(st, input_chr) ==
    LET retstate == Bits(st.s0, 26, 2)
        a0 == [s0 |-> st.s0, out |-> <<>>]
        a1 == IF retstate >= 1 THEN do_utf8(a0, ESC) ELSE a0
        a2 == IF retstate >= 2 THEN do_utf8(a1, 37) ELSE a1
        a3 == IF input_chr = ESC THEN a2 ELSE do_utf8(a2, input_chr)
    IN IF retstate = 1 /\ input_chr = 37
       THEN RdRes([st EXCEPT !.s0 = SetBits(st.s0, 26, 2, 2)], <<>>)
       ELSE IF retstate = 2 /\ input_chr = 64
       THEN RdRes([st EXCEPT !.s0 = ZeroWord],
                  IF <<st.s0[1] % 1024, st.s0[2]>> # ZeroWord
                  THEN <<ERROR>> ELSE <<>>)
       ELSE RdRes([st EXCEPT !.s0 =
                     SetBits(a3.s0, 26, 2, IF input_chr = ESC THEN 1 ELSE 0)],
                  a3.out)

\* ctext_encodings[]: the names end with STX
ctext_encodings ==
    << [name |-> <<98, 105, 103, 53, 45, 48, 2>>, octets_per_char |-> 0,
        enable |-> CDC, subcs |-> "CS_BIG5"],
       [name |-> <<105, 115, 111, 56, 56, 53, 57, 45, 49, 52, 2>>,
        octets_per_char |-> 1, enable |-> CDC, subcs |-> "CS_ISO8859_14"],
       [name |-> <<105, 115, 111, 56, 56, 53, 57, 45, 49, 53, 2>>,
        octets_per_char |-> 1, enable |-> CDC, subcs |-> "CS_ISO8859_15"] >>

\* subcs->read and subcs->write of a ctext_encodings[] entry
ctext_read(subcs, st, input_chr) ==
    CASE subcs = "CS_BIG5" -> read_big5(st, input_chr)
      [] subcs = "CS_ISO8859_14" ->
           read_sbcs(sbcsdata_CS_ISO8859_14, st, input_chr)
      [] OTHER -> read_sbcs(sbcsdata_CS_ISO8859_15, st, input_chr)
ctext_write(subcs, st, input_chr) ==
    CASE subcs = "CS_BIG5" -> write_big5(st, input_chr)
      [] subcs = "CS_ISO8859_14" ->
           write_sbcs(sbcsdata_CS_ISO8859_14, st, input_chr)
      [] OTHER -> write_sbcs(sbcsdata_CS_ISO8859_15, st, input_chr)

\* docs_ctext's s0: bits 31:28, the entry i, the count n, the octets left
\* and the sub-charset's byte
docs_ctext_s0(top, i, n, length, sub) ==
    << top * 4096 + i * 1024 + n * 64 + (length \div 256),
       (length % 256) * 256 + sub >>

\* the narrowing loop over ctext_encodings[]: the final value of i
RECURSIVE docs_ctext_narrow(_, _, _, _)
docs_ctext_narrow(oi, n, input_chr, j) ==
    IF j < Len(ctext_encodings)
       /\ PrefixEq(ctext_encodings[j + 1].name, ctext_encodings[oi + 1].name, n)
       /\ At(ctext_encodings[j + 1].name, n) < input_chr
    THEN docs_ctext_narrow(oi, n, input_chr, j + 1)
    ELSE j

\* docs_ctext, were the high bit of the first length byte counted
docs_ctext_len8(st, input_chr) ==
    LET top == st.s0[1] \div 4096
        oi == Bits(st.s0, 26, 2)
        n == Bits(st.s0, 22, 4)
        length == (st.s0[1] % 64) * 256 + (st.s0[2] \div 256)
        sub == st.s0[2] % 256
        \* what the last lines do with the octet count
        count(top2, i2, n2, sub2) ==
            IF length = 1 THEN ZeroWord
            ELSE docs_ctext_s0(top2, i2, n2, length - 1, sub2)
    IN
    IF length = 0
    THEN IF sub = 0
         THEN RdRes([st EXCEPT !.s0 = <<st.s0[1], st.s0[2] + input_chr>>],
                    <<>>)
         ELSE LET len == sub * 128 + (input_chr % 128) IN
              RdRes([st EXCEPT !.s0 = IF len = 0 THEN ZeroWord
                                      ELSE docs_ctext_s0(top, 0, 0, len, 0)],
                    <<>>)
    ELSE IF n = 14
    THEN RdRes([st EXCEPT !.s0 = IF input_chr = 2 THEN count(top, oi, 15, 0)
                                 ELSE count(top, oi, n, sub)], <<>>)
    ELSE IF n # 15
    THEN
      LET i == docs_ctext_narrow(oi, n, input_chr, oi)
          found == /\ i < Len(ctext_encodings)
                   /\ PrefixEq(ctext_encodings[i + 1].name,
                               ctext_encodings[oi + 1].name, n)
                   /\ At(ctext_encodings[i + 1].name, n) = input_chr
          i2 == IF found THEN i ELSE Len(ctext_encodings)
          n2 == IF ~found THEN 14
                ELSE IF At(ctext_encodings[i + 1].name, n + 1) = 0 THEN 15
                ELSE n + 1
      IN [st  |-> [st EXCEPT !.s0 = count(top, i2, n2, 0)],
          out |-> <<>>,
          ok  |-> i2 < 4 /\ n2 < 16]
    ELSE IF oi >= Len(ctext_encodings)
    THEN RdRes([st EXCEPT !.s0 = count(top, oi, n, sub)], <<ERROR>>)
    ELSE LET r == ctext_read(ctext_encodings[oi + 1].subcs,
                             [s0 |-> <<0, sub>>, s1 |-> ZeroWord], input_chr)
         IN [st  |-> [st EXCEPT !.s0 = count(top, oi, n, r.st.s0[2] % 256)],
             out |-> r.out, ok |-> r.ok]

docs_ctext(st, input_chr) ==
    LET top == st.s0[1] \div 4096
        oi == Bits(st.s0, 26, 2)
        n == Bits(st.s0, 22, 4)
        length == (st.s0[1] % 64) * 256 + (st.s0[2] \div 256)
        sub == st.s0[2] % 256
        \* what the last lines do with the octet count
        count(top2, i2, n2, sub2) ==
            IF length = 1 THEN ZeroWord
            ELSE docs_ctext_s0(top2, i2, n2, length - 1, sub2)
    IN
    IF length = 0
    THEN IF sub = 0
         THEN RdRes([st EXCEPT !.s0 = <<st.s0[1], st.s0[2] + input_chr>>],
                    <<>>)
         ELSE LET len == (sub % 128) * 128 + (input_chr % 128) IN
              RdRes([st EXCEPT !.s0 = IF len = 0 THEN ZeroWord
                                      ELSE docs_ctext_s0(top, 0, 0, len, 0)],
                    <<>>)
    ELSE IF n = 14
    THEN RdRes([st EXCEPT !.s0 = IF input_chr = 2 THEN count(top, oi, 15, 0)
                                 ELSE count(top, oi, n, sub)], <<>>)
    ELSE IF n # 15
    THEN
      LET i == docs_ctext_narrow(oi, n, input_chr, oi)
          found == /\ i < Len(ctext_encodings)
                   /\ PrefixEq(ctext_encodings[i + 1].name,
                               ctext_encodings[oi + 1].name, n)
                   /\ At(ctext_encodings[i + 1].name, n) = input_chr
          i2 == IF found THEN i ELSE Len(ctext_encodings)
          n2 == IF ~found THEN 14
                ELSE IF At(ctext_encodings[i + 1].name, n + 1) = 0 THEN 15
                ELSE n + 1
      IN [st  |-> [st EXCEPT !.s0 = count(top, i2, n2, 0)],
          out |-> <<>>,
          ok  |-> i2 < 4 /\ n2 < 16]
    ELSE IF oi >= Len(ctext_encodings)
    THEN RdRes([st EXCEPT !.s0 = count(top, oi, n, sub)], <<ERROR>>)
    ELSE LET r == ctext_read(ctext_encodings[oi + 1].subcs,
                             [s0 |-> <<0, sub>>, s1 |-> ZeroWord], input_chr)
         IN [st  |-> [st EXCEPT !.s0 = count(top, oi, n, r.st.s0[2] % 256)],
             out |-> r.out, ok |-> r.ok]

\* a C0 or C1 control, were ASSERT_IDLE to emit nothing
iso2022_control_silent(st, input_chr) ==
    LET err == <<>>
        r == iso2022_s1(st.s1)
    IN CASE input_chr = ESC ->
              RdRes([st EXCEPT !.s0 = ENTER_MODE(ZeroWord, ESCSEQ)], err)
         [] input_chr = LS0 ->
              RdRes([s0 |-> ZeroWord,
                     s1 |-> iso2022_mk_s1([r EXCEPT !.gl = 0])], err)
         [] input_chr = LS1 ->
              RdRes([s0 |-> ZeroWord,
                     s1 |-> iso2022_mk_s1([r EXCEPT !.gl = 1])], err)
         [] input_chr = SS2 ->
              RdRes([st EXCEPT !.s0 = ENTER_MODE(ZeroWord, SS2CHAR)], err)
         [] input_chr = SS3 ->
              RdRes([st EXCEPT !.s0 = ENTER_MODE(ZeroWord, SS3CHAR)], err)
         [] OTHER ->
              RdRes([st EXCEPT !.s0 = ZeroWord], err \o <<input_chr>>)

\* a C0 or C1 control: ASSERT_IDLE, then the shifts or the control itself
iso2022_control(st, input_chr) ==
    LET err == IF st.s0 # ZeroWord THEN <<ERROR>> ELSE <<>>
        r == iso2022_s1(st.s1)
    IN CASE input_chr = ESC ->
              RdRes([st EXCEPT !.s0 = ENTER_MODE(ZeroWord, ESCSEQ)], err)
         [] input_chr = LS0 ->
              RdRes([s0 |-> ZeroWord,
                     s1 |-> iso2022_mk_s1([r EXCEPT !.gl = 0])], err)
         [] input_chr = LS1 ->
              RdRes([s0 |-> ZeroWord,
                     s1 |-> iso2022_mk_s1([r EXCEPT !.gl = 1])], err)
         [] input_chr = SS2 ->
              RdRes([st EXCEPT !.s0 = ENTER_MODE(ZeroWord, SS2CHAR)], err)
         [] input_chr = SS3 ->
              RdRes([st EXCEPT !.s0 = ENTER_MODE(ZeroWord, SS3CHAR)], err)
         [] OTHER ->
              RdRes([st EXCEPT !.s0 = ZeroWord], err \o <<input_chr>>)

\* actual data, were a byte below 0x80 counted as a byte of GL under a
\* single shift too
iso2022_data_gl_by_bit(st, input_chr) ==
    LET force == \/ Bits(st.s0, 29, 3) >= ESCSEQ
                 \/ /\ Bits(st.s0, 16, 8) # 0
                    /\ (Bits(st.s0, 23, 1) = 1) # (input_chr >= \h80)
        err == IF force /\ st.s0 # ZeroWord THEN <<ERROR>> ELSE <<>>
        s0 == IF force THEN ZeroWord ELSE st.s0
        MODE == Bits(s0, 29, 3)
        r == iso2022_s1(st.s1)
        shifted == MODE = SS2CHAR \/ MODE = SS3CHAR
        container == IF shifted THEN MODE - SS2CHAR + 2
                     ELSE IF input_chr >= \h80 THEN r.gr
                     ELSE r.gl
        is_gl == input_chr < \h80
        input_7bit == input_chr % 128
        idx == r.g[container + 1]
        subcs == iso2022_subcharsets[idx + 1]
        first == Bits(s0, 16, 8)
    IN
    IF idx >= Len(iso2022_subcharsets)
    THEN [st |-> st, out |-> <<>>, ok |-> FALSE]
    ELSE IF subcs.type \in {S4, M4} /\ input_7bit \in {\h20, \h7F}
    THEN RdRes([st EXCEPT !.s0 = ZeroWord],
               err \o <<IF is_gl THEN input_7bit ELSE ERROR>>)
    ELSE IF subcs.type \in {M4, M6}
    THEN IF first = 0
         THEN RdRes([st EXCEPT !.s0 = <<s0[1] + input_chr, s0[2]>>], err)
         ELSE RdRes([st EXCEPT !.s0 = ZeroWord],
                    err \o <<from_dbcs(subcs, (first % 128) + subcs.offset,
                                       input_7bit + subcs.offset)>>)
    ELSE RdRes([st EXCEPT !.s0 = ZeroWord],
               err \o (IF first # 0 THEN <<ERROR>> ELSE <<>>)
                   \o <<IF subcs.kind = "sbcs"
                        THEN sbcs_to_unicode(subcs.sbcs_base,
                                             input_7bit + subcs.offset)
                        ELSE ERROR>>)

\* actual data, were the single shift over with the first byte of a
\* double-byte character
iso2022_data_shift_one_byte(st, input_chr) ==
    LET force == \/ Bits(st.s0, 29, 3) >= ESCSEQ
                 \/ /\ Bits(st.s0, 16, 8) # 0
                    /\ (Bits(st.s0, 23, 1) = 1) # (input_chr >= \h80)
        err == IF force /\ st.s0 # ZeroWord THEN <<ERROR>> ELSE <<>>
        s0 == IF force THEN ZeroWord ELSE st.s0
        MODE == Bits(s0, 29, 3)
        r == iso2022_s1(st.s1)
        shifted == MODE = SS2CHAR \/ MODE = SS3CHAR
        container == IF shifted THEN MODE - SS2CHAR + 2
                     ELSE IF input_chr >= \h80 THEN r.gr
                     ELSE r.gl
        is_gl == ~shifted /\ input_chr < \h80
        input_7bit == input_chr % 128
        idx == r.g[container + 1]
        subcs == iso2022_subcharsets[idx + 1]
        first == Bits(s0, 16, 8)
    IN
    IF idx >= Len(iso2022_subcharsets)
    THEN [st |-> st, out |-> <<>>, ok |-> FALSE]
    ELSE IF subcs.type \in {S4, M4} /\ input_7bit \in {\h20, \h7F}
    THEN RdRes([st EXCEPT !.s0 = ZeroWord],
               err \o <<IF is_gl THEN input_7bit ELSE ERROR>>)
    ELSE IF subcs.type \in {M4, M6}
    THEN IF first = 0
         THEN RdRes([st EXCEPT !.s0 = <<input_chr, 0>>], err)
         ELSE RdRes([st EXCEPT !.s0 = ZeroWord],
                    err \o <<from_dbcs(subcs, (first % 128) + subcs.offset,
                                       input_7bit + subcs.offset)>>)
    ELSE RdRes([st EXCEPT !.s0 = ZeroWord],
               err \o (IF first # 0 THEN <<ERROR>> ELSE <<>>)
                   \o <<IF subcs.kind = "sbcs"
                        THEN sbcs_to_unicode(subcs.sbcs_base,
                                             input_7bit + subcs.offset)
                        ELSE ERROR>>)

\* actual data: a byte of a character of the set in GL, GR or the
\* single-shifted container
iso2022_data(st, input_chr) ==
    LET force == \/ Bits(st.s0, 29, 3) >= ESCSEQ
                 \/ /\ Bits(st.s0, 16, 8) # 0
                    /\ (Bits(st.s0, 23, 1) = 1) # (input_chr >= \h80)
        err == IF force /\ st.s0 # ZeroWord THEN <<ERROR>> ELSE <<>>
        s0 == IF force THEN ZeroWord ELSE st.s0
        MODE == Bits(s0, 29, 3)
        r == iso2022_s1(st.s1)
        shifted == MODE = SS2CHAR \/ MODE = SS3CHAR
        container == IF shifted THEN MODE - SS2CHAR + 2
                     ELSE IF input_chr >= \h80 THEN r.gr
                     ELSE r.gl
        is_gl == ~shifted /\ input_chr < \h80
        input_7bit == input_chr % 128
        idx == r.g[container + 1]
        subcs == iso2022_subcharsets[idx + 1]
        first == Bits(s0, 16, 8)
    IN
    IF idx >= Len(iso2022_subcharsets)
    THEN [st |-> st, out |-> <<>>, ok |-> FALSE]
    ELSE IF subcs.type \in {S4, M4} /\ input_7bit \in {\h20, \h7F}
    THEN RdRes([st EXCEPT !.s0 = ZeroWord],
               err \o <<IF is_gl THEN input_7bit ELSE ERROR>>)
    ELSE IF subcs.type \in {M4, M6}
    THEN IF first = 0
         THEN RdRes([st EXCEPT !.s0 = <<s0[1] + input_chr, s0[2]>>], err)
         ELSE RdRes([st EXCEPT !.s0 = ZeroWord],
                    err \o <<from_dbcs(subcs, (first % 128) + subcs.offset,
                                       input_7bit + subcs.offset)>>)
    ELSE RdRes([st EXCEPT !.s0 = ZeroWord],
               err \o (IF first # 0 THEN <<ERROR>> ELSE <<>>)
                   \o <<IF subcs.kind = "sbcs"
                        THEN sbcs_to_unicode(subcs.sbcs_base,
                                             input_7bit + subcs.offset)
                        ELSE ERROR>>)

\* the final byte of an escape sequence with intermediate bytes i1, i2
iso2022_final(st, i1, i2, input_chr) ==
    LET r == iso2022_s1(st.s1)
        idle(r2, out) == RdRes([s0 |-> ZeroWord, s1 |-> iso2022_mk_s1(r2)],
                               out)
        enter(r2, m, out) ==
            RdRes([s0 |-> ENTER_MODE(ZeroWord, m), s1 |-> iso2022_mk_s1(r2)],
                  out)
        \* `case '$'' has no break: the DOCS cases follow it
        j2 == IF i2 = 0 THEN 40 ELSE i2
        docs(r2, k2, out) ==
            IF k2 = 0 /\ input_chr = 71 THEN enter(r2, DOCSUTF8, out)
            ELSE IF k2 = 47 /\ input_chr \in {49, 50}
            THEN enter(r2, DOCSCTEXT, out)
            ELSE idle(r2, out)
    IN CASE i1 = 0 ->
              CASE input_chr = 78 -> enter(r, SS2CHAR, <<>>)
                [] input_chr = 79 -> enter(r, SS3CHAR, <<>>)
                [] input_chr = 110 -> idle([r EXCEPT !.gl = 2], <<>>)
                [] input_chr = 111 -> idle([r EXCEPT !.gl = 3], <<>>)
                [] input_chr = 124 -> idle([r EXCEPT !.gr = 3], <<>>)
                [] input_chr = 125 -> idle([r EXCEPT !.gr = 2], <<>>)
                [] input_chr = 126 -> idle([r EXCEPT !.gr = 1], <<>>)
                [] OTHER -> idle(r, <<ESC, input_chr>>)
         [] i1 = 32 ->
              IF input_chr = 65 THEN idle([r EXCEPT !.gl = 0], <<>>)
              ELSE IF input_chr \in {67, 68, 76, 77}
              THEN idle([r EXCEPT !.gl = 0, !.gr = 1], <<>>)
              ELSE idle(r, <<>>)
         [] i1 = 38 -> idle(r, <<>>)
         [] i1 \in 40..43 ->
              idle(designate(r, i1 - 40, S4, i2, input_chr), <<>>)
         [] i1 \in 45..47 ->
              idle(designate(r, i1 - 44, S6, i2, input_chr), <<>>)
         [] i1 = 36 ->
              IF j2 \in 40..43
              THEN docs(designate(r, j2 - 40, M4, 0, input_chr), j2, <<>>)
              ELSE IF j2 \in 45..47
              THEN docs(designate(r, j2 - 44, M6, 0, input_chr), j2, <<>>)
              ELSE docs(r, j2, <<ERROR>>)
         [] i1 = 37 -> docs(r, i2, <<>>)
         [] OTHER ->
              idle(r, <<ESC, i1>> \o (IF i2 # 0 THEN <<i2>> ELSE <<>>)
                      \o <<input_chr>>)

\* a byte 20..7F inside an escape sequence
iso2022_escape(st, input_chr) ==
    LET MODE == Bits(st.s0, 29, 3)
        i1 == Bits(st.s0, 16, 8)
        i2 == Bits(st.s0, 8, 8)
    IN
    IF MODE = ESCPASS
    THEN RdRes([st EXCEPT !.s0 = IF input_chr \div 16 # 2
                                 THEN ENTER_MODE(st.s0, IDLE) ELSE st.s0],
               <<input_chr>>)
    ELSE IF input_chr \div 16 = 2
    THEN IF i1 = 0
         THEN RdRes([st EXCEPT !.s0 = <<st.s0[1] + input_chr, st.s0[2]>>],
                    <<>>)
         ELSE IF i2 = 0
         THEN RdRes([st EXCEPT !.s0 = <<st.s0[1], st.s0[2] + input_chr * 256>>],
                    <<>>)
         ELSE IF i1 \in {40, 41, 42, 43, 45, 46, 47, 36}
         THEN RdRes([st EXCEPT !.s0 = ENTER_MODE(st.s0, ESCDROP)], <<>>)
         ELSE RdRes([st EXCEPT !.s0 = ENTER_MODE(ZeroWord, ESCPASS)],
                    <<ESC, i1, i2, input_chr>>)
    ELSE iso2022_final(st, i1, i2, IF MODE = ESCDROP THEN 0 ELSE input_chr)

\* read_iso2022 once the state is set up
iso2022_read(st, input_chr) ==
    LET MODE == Bits(st.s0, 29, 3)
    IN IF MODE = DOCSUTF8 THEN docs_utf8(st, input_chr)
       ELSE IF MODE = DOCSCTEXT THEN docs_ctext(st, input_chr)
       ELSE IF (input_chr \div 32) % 4 = 0 THEN iso2022_control(st, input_chr)
       ELSE IF input_chr >= \h80 \/ MODE < ESCSEQ
       THEN iso2022_data(st, input_chr)
       ELSE iso2022_escape(st, input_chr)

read_iso2022(mode, st, input_chr) ==
    iso2022_read(IF st.s1 = ZeroWord
                 THEN [st EXCEPT !.s1 = iso2022_start(mode)] ELSE st,
                 input_chr)

\* The encoder's steps thread acc = [r, out, ok]: the state, what has been
\* emitted so far in this call, and whether every assert so far held.

\* oselect()
oselect(acc, i, right, emitting) ==
    LET subcs == iso2022_subcharsets[i + 1]
        multi == subcs.type \in {M4, M6}
        six == subcs.type \in {S6, M6}
    IN IF (IF right THEN acc.r.g1 ELSE acc.r.g0) = i THEN acc
       ELSE [r   |-> IF right THEN [acc.r EXCEPT !.g1 = i]
                     ELSE [acc.r EXCEPT !.g0 = i],
             out |-> IF ~emitting THEN acc.out
                     ELSE acc.out \o <<ESC>>
                          \o (IF multi THEN <<36>> ELSE <<>>)
                          \o <<IF six THEN 45 ELSE IF right THEN 41 ELSE 40>>
                          \o (IF subcs.i # 0 THEN <<subcs.i>> ELSE <<>>)
                          \o <<subcs.f>>,
             ok  |-> acc.ok /\ ((emitting /\ six) => right)]

\* the encoder's state: s1[30:24] G1, s1[23:17] G0, s1[16:14] the DOCS index
\* plus 2, s1[13:11] the number of accumulated bytes, s1[7:0] and s0 the
\* accumulated bytes; s1[31] is set once the state is initialised
iso2022_wstate(st) ==
    [g1 |-> Bits(st.s1, 24, 7), g0 |-> Bits(st.s1, 17, 7),
     docs |-> Bits(st.s1, 14, 3), currlen |-> Bits(st.s1, 11, 3),
     bytes |-> << st.s1[2] % 256, st.s0[1] \div 256, st.s0[1] % 256,
                  st.s0[2] \div 256, st.s0[2] % 256 >>]
iso2022_mk_wstate(r) ==
    [s0 |-> << r.bytes[2] * 256 + r.bytes[3], r.bytes[4] * 256 + r.bytes[5] >>,
     s1 |-> << 32768 + r.g1 * 256 + r.g0 * 2 + (r.docs \div 4),
               (r.docs % 4) * 16384 + r.currlen * 2048 + r.bytes[1] >>]

\* a docs_char whose length leaves out the name of the encoding
docs_char_len_without_name(acc, cset, data) ==
    LET r == acc.r
        curr_cset == r.docs - 2
        term == \/ curr_cset # -2 /\ curr_cset # cset
                \/ curr_cset >= 0 /\ r.currlen + Len(data) > 5
        flush == term /\ curr_cset >= 0
        enc == ctext_encodings[curr_cset + 1]
        \* strlen(name): the name without its terminating NUL
        len == r.currlen + Len(data)
        out1 == IF ~term THEN <<>>
                ELSE IF curr_cset = -1 THEN <<ESC, 37, 64>>
                ELSE <<ESC, 37, 47, 48 + enc.octets_per_char,
                       128 + ((len \div 128) % 128), 128 + (len % 128)>>
                     \o enc.name
                     \o [k \in 1..r.currlen |-> r.bytes[k]]
                     \o data
        data2 == IF flush THEN <<>> ELSE data
        start == (IF term THEN -2 ELSE curr_cset) # cset
        out2 == IF start /\ cset = -1 THEN <<ESC, 37, 71>> ELSE <<>>
        r2 == IF start /\ cset # -1
              THEN [r EXCEPT !.currlen = 0, !.bytes = <<0, 0, 0, 0, 0>>]
              ELSE r
        store == data2 # <<>> /\ cset # -1
        out3 == IF data2 # <<>> /\ cset = -1 THEN data2 ELSE <<>>
        r3 == IF store
              THEN [r2 EXCEPT
                      !.currlen = @ + Len(data2),
                      !.bytes = [k \in 1..5 |->
                                   IF k > r2.currlen
                                      /\ k <= r2.currlen + Len(data2)
                                   THEN data2[k - r2.currlen]
                                   ELSE r2.bytes[k]]]
              ELSE r2
        \* `(data[i] & 0xFF) << (8*(4-(currlen+i)))' is an int shifted by 24
        \* when currlen + i is 1: a byte of 0x80 or more overflows the int,
        \* and the value ORed into the unsigned long s0 has the bits above
        \* bit 31 clear or, sign-extended, set
        over == store /\ \E k \in 1..Len(data2) :
                            r2.currlen + (k - 1) = 1 /\ data2[k] >= \h80
    IN [r   |-> [r3 EXCEPT !.docs = cset + 2],
        out |-> acc.out \o out1 \o out2 \o out3,
        ok  |-> /\ acc.ok
                /\ flush => len < 16384
                /\ start => cset # -2
                /\ data2 # <<>> => cset # 2
                /\ store => r2.currlen + Len(data2) <= 5,
        high |-> IF over THEN {ZeroWord, <<\hFFFF, \hFFFF>>}
                 ELSE {ZeroWord}]

\* docs_char(), `data' being the bytes of the character as the sub-charset
\* wrote them
docs_char(acc, cset, data) ==
    LET r == acc.r
        curr_cset == r.docs - 2
        term == \/ curr_cset # -2 /\ curr_cset # cset
                \/ curr_cset >= 0 /\ r.currlen + Len(data) > 5
        flush == term /\ curr_cset >= 0
        enc == ctext_encodings[curr_cset + 1]
        \* strlen(name): the name without its terminating NUL
        len == r.currlen + Len(data) + Len(enc.name)
        out1 == IF ~term THEN <<>>
                ELSE IF curr_cset = -1 THEN <<ESC, 37, 64>>
                ELSE <<ESC, 37, 47, 48 + enc.octets_per_char,
                       128 + ((len \div 128) % 128), 128 + (len % 128)>>
                     \o enc.name
                     \o [k \in 1..r.currlen |-> r.bytes[k]]
                     \o data
        data2 == IF flush THEN <<>> ELSE data
        start == (IF term THEN -2 ELSE curr_cset) # cset
        out2 == IF start /\ cset = -1 THEN <<ESC, 37, 71>> ELSE <<>>
        r2 == IF start /\ cset # -1
              THEN [r EXCEPT !.currlen = 0, !.bytes = <<0, 0, 0, 0, 0>>]
              ELSE r
        store == data2 # <<>> /\ cset # -1
        out3 == IF data2 # <<>> /\ cset = -1 THEN data2 ELSE <<>>
        r3 == IF store
              THEN [r2 EXCEPT
                      !.currlen = @ + Len(data2),
                      !.bytes = [k \in 1..5 |->
                                   IF k > r2.currlen
                                      /\ k <= r2.currlen + Len(data2)
                                   THEN data2[k - r2.currlen]
                                   ELSE r2.bytes[k]]]
              ELSE r2
        \* `(data[i] & 0xFF) << (8*(4-(currlen+i)))' is an int shifted by 24
        \* when currlen + i is 1: a byte of 0x80 or more overflows the int,
        \* and the value ORed into the unsigned long s0 has the bits above
        \* bit 31 clear or, sign-extended, set
        over == store /\ \E k \in 1..Len(data2) :
                            r2.currlen + (k - 1) = 1 /\ data2[k] >= \h80
    IN [r   |-> [r3 EXCEPT !.docs = cset + 2],
        out |-> acc.out \o out1 \o out2 \o out3,
        ok  |-> /\ acc.ok
                /\ flush => len < 16384
                /\ start => cset # -2
                /\ data2 # <<>> => cset # 2
                /\ store => r2.currlen + Len(data2) <= 5,
        high |-> IF over THEN {ZeroWord, <<\hFFFF, \hFFFF>>}
                 ELSE {ZeroWord}]

\* what the search loop of write_iso2022 finds in sub-charset k (from 0):
\* [hit, c1, c2, ok], ok being the asserts on c1 and c2
iso2022_match(mode, k, input_chr) ==
    LET subcs == iso2022_subcharsets[k + 1]
        miss == [hit |-> FALSE, c1 |-> 0, c2 |-> 0, ok |-> TRUE]
    IN IF subcs.enable \notin mode.enable_mask THEN miss
       ELSE IF subcs.kind = "sbcs"
       THEN LET c1 == sbcs_from_unicode(subcs.sbcs_base, input_chr)
                      - subcs.offset
            IN IF c1 >= \h20 /\ c1 <= \h7F
               THEN [hit |-> TRUE, c1 |-> c1, c2 |-> 0, ok |-> TRUE]
               ELSE miss
       ELSE IF subcs.kind = "dbcs"
       THEN LET e == to_dbcs(subcs, input_chr)
                c1 == e.r - subcs.offset
                c2 == e.c - subcs.offset
            IN IF e.p = subcs.to_dbcs_plane
               THEN [hit |-> TRUE, c1 |-> c1, c2 |-> c2,
                     ok  |-> /\ e.assert
                             /\ c1 >= \h20 /\ c1 <= \h7F
                             /\ c2 >= \h20 /\ c2 <= \h7F]
               ELSE [miss EXCEPT !.ok = e.assert]
       ELSE miss

\* the DOCS fallback: the first enabled entry of ctext_encodings[] that can
\* write the character, then UTF-8: [cs, data], cs = -2 when there is none
iso2022_docs_choice(mode, input_chr) ==
    LET w(k) == ctext_write(ctext_encodings[k].subcs,
                            [s0 |-> ZeroWord, s1 |-> ZeroWord], input_chr)
        can == { k \in 1..Len(ctext_encodings) :
                   /\ ctext_encodings[k].enable \in mode.enable_mask
                   /\ TRUE \in w(k).rets }
        u == write_utf8([s0 |-> ZeroWord, s1 |-> ZeroWord], input_chr)
    IN IF can # {}
       THEN [cs |-> Min(can) - 1, data |-> w(Min(can)).out]
       ELSE IF CDU \in mode.enable_mask /\ TRUE \in u.rets
       THEN [cs |-> -1, data |-> u.out]
       ELSE [cs |-> -2, data |-> <<>>]

\* `if (!state->s1)': the state the encoder starts from
iso2022_winit(mode, st) ==
    [r   |-> IF st.s1 = ZeroWord
             THEN [g1 |-> FindSubcharset(mode.rtype, mode.ri, mode.rf),
                   g0 |-> FindSubcharset(mode.ltype, mode.li, mode.lf),
                   docs |-> 0, currlen |-> 0, bytes |-> <<0, 0, 0, 0, 0>>]
             ELSE iso2022_wstate(st),
     out |-> <<>>, ok |-> TRUE]

iso2022_wres(acc, ret) ==
    [st |-> iso2022_mk_wstate(acc.r), out |-> acc.out, rets |-> {ret},
     ok |-> acc.ok]

\* `if (input_chr == -1)': leave DOCS and designate the initial sets
iso2022_wreset(mode, acc) ==
    oselect(oselect(docs_char(acc, -2, <<>>),
                    FindSubcharset(mode.ltype, mode.li, mode.lf), FALSE, TRUE),
            FindSubcharset(mode.rtype, mode.ri, mode.rf), TRUE, TRUE)

\* an iso2022_wchar that puts the 94x94 sets in G0
iso2022_wchar_m4_left(acc, i, m) ==
    LET subcs == iso2022_subcharsets[i + 1]
        right == \/ subcs.type \in {S6, M6}
                 \/ subcs.kind = "sbcs" /\ subcs.offset = \h80
        hi == IF right THEN \h80 ELSE 0
        inside(c) == IF right THEN c >= \h20 /\ c <= \h7F
                     ELSE c > \h20 /\ c < \h7F
    IN [oselect(docs_char(acc, -2, <<>>), i, right, TRUE) EXCEPT
          !.out = @ \o <<m.c1 + hi>>
                    \o (IF m.c2 # 0 THEN <<m.c2 + hi>> ELSE <<>>),
          !.ok = @ /\ inside(m.c1) /\ (m.c2 # 0 => inside(m.c2))]

\* the character is c1 (and c2) of sub-charset i: leave DOCS, designate and
\* emit
iso2022_wchar(acc, i, m) ==
    LET subcs == iso2022_subcharsets[i + 1]
        right == \/ subcs.type \in {S6, M6, M4}
                 \/ subcs.kind = "sbcs" /\ subcs.offset = \h80
        hi == IF right THEN \h80 ELSE 0
        inside(c) == IF right THEN c >= \h20 /\ c <= \h7F
                     ELSE c > \h20 /\ c < \h7F
    IN [oselect(docs_char(acc, -2, <<>>), i, right, TRUE) EXCEPT
          !.out = @ \o <<m.c1 + hi>>
                    \o (IF m.c2 # 0 THEN <<m.c2 + hi>> ELSE <<>>),
          !.ok = @ /\ inside(m.c1) /\ (m.c2 # 0 => inside(m.c2))]

\* the asserts of the sub-charsets the search loop went through
iso2022_tried(mode, acc, last, input_chr) ==
    [acc EXCEPT !.ok = \A k \in 0..last : iso2022_match(mode, k, input_chr).ok]

iso2022_wfound(mode, acc, i, input_chr) ==
    iso2022_wchar(iso2022_tried(mode, acc, i, input_chr), i,
                  iso2022_match(mode, i, input_chr))

iso2022_wdocs(acc, f) ==
    IF f.cs # -2 THEN iso2022_wres(docs_char(acc, f.cs, f.data), TRUE)
    ELSE iso2022_wres(acc, FALSE)

iso2022_write(mode, acc, input_chr) ==
    LET hits == { k \in 0..(Len(iso2022_subcharsets) - 1) :
                    iso2022_match(mode, k, input_chr).hit }
    IN
    IF input_chr = -1 THEN iso2022_wres(iso2022_wreset(mode, acc), TRUE)
    ELSE IF input_chr <= \h20 \/ (input_chr >= \h7F /\ input_chr < \hA0)
    THEN iso2022_wres([acc EXCEPT !.out = <<input_chr>>], TRUE)
    ELSE IF hits # {}
    THEN iso2022_wres(iso2022_wfound(mode, acc, Min(hits), input_chr), TRUE)
    ELSE iso2022_wdocs(iso2022_tried(mode, acc,
                                     Len(iso2022_subcharsets) - 1, input_chr),
                       iso2022_docs_choice(mode, input_chr))

write_iso2022(mode, st, input_chr) ==
    iso2022_write(mode, iso2022_winit(mode, st), input_chr)

\* the values a call of write_iso2022 can leave in bits 63 to 32 of s0
\* where unsigned long has 64 bits: docs_char alone shifts a signed value
\* into the top byte of the word
write_iso2022_high(mode, st, input_chr) ==
    IF /\ input_chr > \h20 /\ ~(input_chr >= \h7F /\ input_chr < \hA0)
       /\ \A k \in 0..(Len(iso2022_subcharsets) - 1) :
             ~iso2022_match(mode, k, input_chr).hit
       /\ iso2022_docs_choice(mode, input_chr).cs # -2
    THEN docs_char(iso2022_winit(mode, st),
                   iso2022_docs_choice(mode, input_chr).cs,
                   iso2022_docs_choice(mode, input_chr).data).high
    ELSE {ZeroWord}

(***************************************************************************)
(* The charset_spec of each charset: its read and write members with its   *)
(* data, as charset_find_spec yields them.                                 *)
(***************************************************************************)
Charsets ==
    { "CS_ASCII", "CS_ISO8859_1", "CS_ISO8859_15", "CS_UTF8",
      "CS_UTF7", "CS_UTF7_CONSERVATIVE", "CS_UTF16", "CS_UTF16BE",
      "CS_UTF16LE", "CS_EUC_JP", "CS_EUC_CN", "CS_EUC_KR", "CS_EUC_TW",
      "CS_ISO2022_JP", "CS_ISO2022_KR", "CS_BIG5", "CS_SHIFT_JIS", "CS_HZ",
      "CS_CP949", "CS_CTEXT", "CS_ISO2022" }

\* charset->data of the two full ISO 2022 charsets
iso2022_mode(charset) ==
    IF charset = "CS_CTEXT" THEN iso2022_ctext ELSE iso2022_all

spec_read(charset, st, input_chr) ==
    CASE charset = "CS_ASCII" -> read_sbcs(sbcsdata_CS_ASCII, st, input_chr)
      [] charset = "CS_ISO8859_1" ->
           read_sbcs(sbcsdata_CS_ISO8859_1, st, input_chr)
      [] charset = "CS_ISO8859_15" ->
           read_sbcs(sbcsdata_CS_ISO8859_15, st, input_chr)
      [] charset = "CS_UTF8" -> read_utf8(st, input_chr)
      [] charset \in {"CS_UTF7", "CS_UTF7_CONSERVATIVE"} ->
           read_utf7(st, input_chr)
      [] charset = "CS_UTF16" ->
           read_utf16(utf16_variable_endianness, st, input_chr)
      [] charset = "CS_UTF16BE" -> read_utf16(utf16_bigendian, st, input_chr)
      [] charset = "CS_UTF16LE" ->
           read_utf16(utf16_littleendian, st, input_chr)
      [] charset = "CS_EUC_JP" -> read_euc(euc_jp, st, input_chr)
      [] charset = "CS_EUC_CN" -> read_euc(euc_cn, st, input_chr)
      [] charset = "CS_EUC_KR" -> read_euc(euc_kr, st, input_chr)
      [] charset = "CS_EUC_TW" -> read_euc(euc_tw, st, input_chr)
      [] charset = "CS_ISO2022_JP" -> read_iso2022s(iso2022jp, st, input_chr)
      [] charset = "CS_ISO2022_KR" -> read_iso2022s(iso2022kr, st, input_chr)
      [] charset = "CS_BIG5" -> read_big5(st, input_chr)
      [] charset = "CS_SHIFT_JIS" -> read_sjis(st, input_chr)
      [] charset = "CS_HZ" -> read_hz(st, input_chr)
      [] charset = "CS_CP949" -> read_cp949(st, input_chr)
      [] charset \in {"CS_CTEXT", "CS_ISO2022"} ->
           read_iso2022(iso2022_mode(charset), st, input_chr)

spec_write(charset, st, input_chr) ==
    CASE charset = "CS_ASCII" -> write_sbcs(sbcsdata_CS_ASCII, st, input_chr)
      [] charset = "CS_ISO8859_1" ->
           write_sbcs(sbcsdata_CS_ISO8859_1, st, input_chr)
      [] charset = "CS_ISO8859_15" ->
           write_sbcs(sbcsdata_CS_ISO8859_15, st, input_chr)
      [] charset = "CS_UTF8" -> write_utf8(st, input_chr)
      [] charset = "CS_UTF7" -> write_utf7(FALSE, st, input_chr)
      [] charset = "CS_UTF7_CONSERVATIVE" -> write_utf7(TRUE, st, input_chr)
      [] charset = "CS_UTF16" ->
           write_utf16(utf16_variable_endianness, st, input_chr)
      [] charset = "CS_UTF16BE" -> write_utf16(utf16_bigendian, st, input_chr)
      [] charset = "CS_UTF16LE" ->
           write_utf16(utf16_littleendian, st, input_chr)
      [] charset = "CS_EUC_JP" -> write_euc(euc_jp, st, input_chr)
      [] charset = "CS_EUC_CN" -> write_euc(euc_cn, st, input_chr)
      [] charset = "CS_EUC_KR" -> write_euc(euc_kr, st, input_chr)
      [] charset = "CS_EUC_TW" -> write_euc(euc_tw, st, input_chr)
      [] charset = "CS_ISO2022_JP" -> write_iso2022s(iso2022jp, st, input_chr)
      [] charset = "CS_ISO2022_KR" -> write_iso2022s(iso2022kr, st, input_chr)
      [] charset = "CS_BIG5" -> write_big5(st, input_chr)
      [] charset = "CS_SHIFT_JIS" -> write_sjis(st, input_chr)
      [] charset = "CS_HZ" -> write_hz(st, input_chr)
      [] charset = "CS_CP949" -> write_cp949(st, input_chr)
      [] charset \in {"CS_CTEXT", "CS_ISO2022"} ->
           write_iso2022(iso2022_mode(charset), st, input_chr)

\* charset_contains_ascii (superset.c)
charset_contains_ascii(charset) ==
    charset # "CS_HZ" /\ charset # "CS_UTF7"
    /\ charset # "CS_UTF7_CONSERVATIVE"

(***************************************************************************)
(* charset_from_unicode (fromucs.c).  The emit callback writes into the    *)
(* caller's buffer: param is [output, outlen, stopped], output being what  *)
(* has been written so far.                                                *)
(***************************************************************************)
\* charset_emit without the test of the space left
charset_emit_unchecked(param, output) ==
    [param EXCEPT !.output = Append(@, output % 256), !.outlen = @ - 1]

charset_emit(param, output) ==
    IF param.outlen > 0
    THEN [param EXCEPT !.output = Append(@, output % 256),
                       !.outlen = @ - 1]
    ELSE [param EXCEPT !.stopped = TRUE]

RECURSIVE emit_all(_, _)
emit_all(param, out) ==
    IF out = <<>> THEN param
    ELSE emit_all(charset_emit(param, Head(out)), Tail(out))

\* the `while (*inlen > 0)' loop: `done' characters are consumed, `rets'
\* are the values write() returned so far.  The result is the set of ways
\* the call can end: [ret, error, consumed, st, buf, stopped, rets].
RECURSIVE from_unicode_loop(_, _, _, _, _, _, _)
from_unicode_loop(charset, input, done, st, param, error, rets) ==
    IF done = Len(input)
    THEN { [ret |-> Len(param.output), error |-> FALSE, consumed |-> done,
            st |-> st, buf |-> param.output, stopped |-> FALSE,
            rets |-> rets] }
    ELSE
    \* wp is what write() does with the next character and the buffer
    \* after it, r the value write() returns
    LET lenbefore == Len(param.output)
        leave(p2, r, err) ==
            [ret |-> lenbefore, error |-> err, consumed |-> done, st |-> st,
             buf |-> p2.output, stopped |-> p2.stopped,
             rets |-> Append(rets, r)]
    IN UNION { UNION { IF error /\ ~r THEN { leave(wp[2], r, TRUE) }
                       ELSE IF wp[2].stopped THEN { leave(wp[2], r, FALSE) }
                       ELSE from_unicode_loop(charset, input, done + 1,
                                              wp[1].st, wp[2], error,
                                              Append(rets, r))
                       : r \in wp[1].rets }
               : wp \in { <<w, emit_all(param, w.out)>>
                          : w \in {spec_write(charset, st, input[done + 1])} } }

\* `error' says whether the caller passed a non-NULL error pointer; a NULL
\* input pointer (reset the encoding state) is the input <<-1>>
charset_from_unicode(charset, input, outlen, st, error) ==
    from_unicode_loop(charset, input, 0, st,
                      [output |-> <<>>, outlen |-> outlen, stopped |-> FALSE],
                      error, <<>>)

(***************************************************************************)
(* State.                                                                  *)
(*   cs    the charset in use                                              *)
(*   est   the charset_state an encoding caller holds                      *)
(*   dst   the charset_state a decoding caller holds                       *)
(*   sent  the code points write() has accepted, -1 (finalise) included    *)
(*   wire  the bytes emitted so far                                        *)
(*   dout  the code points the decoder emitted                             *)
(*   last  the call whose result the caller has not yet taken: its         *)
(*         arguments and what it did                                       *)
(*   hist  what is remembered of the earlier write() calls: whether all    *)
(*         returned true, and whether the latest was the finalising one    *)
(***************************************************************************)
VARIABLES cs, est, dst, sent, wire, dout, last, hist

vars == <<cs, est, dst, sent, wire, dout, last, hist>>

NoCall == [op |-> "none"]

\* code points given to the encoders
Scalars ==
    { \h0E, \h1B, \h2B, \h41, \h5C, \h7E, \hA5, \hE9, \h20AC, \h203E,
      \h3042, \h4E00, \h4E42, \h554A, \hAC00, \hFF61, \hFEFF, \hD800,
      \h10000, \h110000 }

InitAll ==
    /\ cs \in Charsets
    /\ est = charset_init_state
    /\ dst = charset_init_state
    /\ sent = <<>>
    /\ wire = <<>>
    /\ dout = <<>>
    /\ last = NoCall
    /\ hist = [clean |-> TRUE, fin |-> FALSE]

\* what a byte-oriented emit function stores of the values it is given
ToBytes(out) == [i \in 1..Len(out) |-> out[i] % 256]

\* one call of the codec's write member; `keep' says whether the bytes
\* emitted are kept for a receiver
\* what a write call can leave in bits 63 to 32 of s0
spec_write_high(charset, st, input_chr) ==
    IF charset \in {"CS_CTEXT", "CS_ISO2022"}
    THEN write_iso2022_high(iso2022_mode(charset), st, input_chr)
    ELSE {ZeroWord}

WriteCall(c, keep) ==
    \E w \in {spec_write(cs, est, c)} : \E r \in w.rets :
    \E h \in spec_write_high(cs, est, c) :
        /\ est' = w.st
        /\ wire' = IF keep THEN wire \o ToBytes(w.out) ELSE wire
        /\ sent' = IF keep /\ r THEN Append(sent, c) ELSE sent
        /\ last' = [op |-> "write", input |-> c, pre |-> est, ret |-> r,
                    out |-> w.out, clean |-> hist.clean, fin |-> hist.fin,
                    high |-> h]
        /\ hist' = [clean |-> hist.clean /\ r, fin |-> c = -1]
        /\ UNCHANGED <<cs, dst, dout>>

\* the caller takes the result of the call
Return ==
    /\ last.op # "none"
    /\ last' = NoCall
    /\ UNCHANGED <<cs, est, dst, sent, wire, dout, hist>>

(***************************************************************************)
(* Round trip: one code point is encoded from the initial state, the       *)
(* output is finalised or not, and then a receiver decodes the bytes, one  *)
(* read() call a byte, from the initial state.                             *)
(***************************************************************************)
RTScalars == Scalars \cup 0..127

RTEncode ==
    /\ last.op = "none"
    /\ \E c \in RTScalars : WriteCall(c, TRUE)

RTFinalize ==
    /\ last.op = "write" /\ last.input # -1
    /\ WriteCall(-1, TRUE)

\* the receiver reads the next byte of the wire
RTDecode ==
    /\ last.op \in {"write", "decode"}
    /\ wire # <<>>
    /\ \E r \in {spec_read(cs, dst, Head(wire))} :
         /\ dst' = r.st
         /\ dout' = dout \o r.out
    /\ wire' = Tail(wire)
    /\ last' = [op |-> "decode", input |-> last.input, ret |-> last.ret]
    /\ UNCHANGED <<cs, est, sent, hist>>

NextRT == RTEncode \/ RTFinalize \/ RTDecode

SpecRT == InitAll /\ [][NextRT]_vars

(***************************************************************************)
(* Encoder streams: any sequence of write() calls on one state, of any     *)
(* length.                                                                 *)
(***************************************************************************)
EncWrite ==
    /\ last.op = "none"
    /\ \E c \in Scalars : WriteCall(c, FALSE)

EncFinalize ==
    /\ last.op = "none"
    /\ WriteCall(-1, FALSE)

NextEnc == EncWrite \/ EncFinalize \/ Return

SpecEnc == InitAll /\ [][NextEnc]_vars


(***************************************************************************)
(* Decoder streams: any sequence of bytes given to read() on one state.    *)
(* The bytes are all of 0..255 where the decoder's states are few, and     *)
(* otherwise the bytes its code distinguishes.                             *)
(***************************************************************************)
FeedBytes(charset) ==
    CASE charset \in {"CS_ASCII", "CS_ISO8859_1", "CS_ISO8859_15", "CS_BIG5",
                      "CS_CP949", "CS_SHIFT_JIS", "CS_HZ"} -> 0..255
      [] charset \in {"CS_EUC_JP", "CS_EUC_CN", "CS_EUC_KR", "CS_EUC_TW"} ->
           { \h00, \h41, \h7F, \h80, \h8E, \h8F, \hA0, \hA1, \hA2, \hA4,
             \hB0, \hDF, \hE0, \hFE, \hFF }
      [] charset = "CS_UTF8" ->
           { \h00, \h41, \h7F, \h80, \h81, \h9F, \hA0, \hBF, \hC0, \hC1,
             \hC2, \hC3, \hDF, \hE0, \hE3, \hED, \hEF, \hF0, \hF4, \hF7,
             \hF8, \hFE, \hFF }
      [] charset \in {"CS_UTF7", "CS_UTF7_CONSERVATIVE"} ->
           { \h00, \h2B, \h2D, \h2F, \h32, \h41, \h51, \h77, \h7E, \h80,
             \hFF }
      [] charset \in {"CS_UTF16", "CS_UTF16BE", "CS_UTF16LE"} ->
           { \h00, \h41, \hD8, \hDC, \hFE, \hFF }
      [] charset \in {"CS_ISO2022_JP", "CS_ISO2022_KR"} ->
           { \h00, \h0A, SO, SI, ESC, \h20, \h21, \h24, \h28, \h29, \h40,
             \h41, \h42, \h43, \h4A, \h7E, \h7F, \h80, \hA1, \hFF }
      [] charset = "CS_ISO2022" ->
           { \h00, LS1, LS0, ESC, \h20, \h24, \h28, \h29, \h2D, \h41,
             \h42, \h4E, \h7E, \h7F, SS2, \hA0, \hA1, \hFF }
      [] charset = "CS_CTEXT" ->
           { \h02, ESC, \h24, \h25, \h2F, \h30, \h31, \h40, \h41, \h47, \h62,
             \h69, \h67, \h35, \h2D, \h80, \h81, \h88, \hA1, \hC3,
             \hA9 }

\* the longest extended segment a decoder stream announces
MaxSeg == 9

\* the octets left in the extended segment a full ISO 2022 decoder is in
SegLeft(st) ==
    IF Bits(st.s0, 29, 3) = DOCSCTEXT THEN Bits(st.s0, 8, 14) ELSE 0

DecFeed ==
    /\ last.op = "none"
    /\ \E b \in FeedBytes(cs) :
      \E r \in {spec_read(cs, dst, b)} :
        /\ cs \in {"CS_CTEXT", "CS_ISO2022"} => SegLeft(r.st) <= MaxSeg
        /\ dst' = r.st
        /\ last' = [op |-> "read", input |-> b, pre |-> dst, out |-> r.out,
                    ok |-> r.ok]
        /\ UNCHANGED <<cs, est, sent, wire, dout, hist>>

NextDec == DecFeed \/ Return

SpecDec == InitAll /\ [][NextDec]_vars

(***************************************************************************)
(* The streaming front end: any sequence of charset_from_unicode calls on  *)
(* one state, each with its own input, buffer size and error pointer.      *)
(***************************************************************************)
MaxIn == 2
MaxOut == 5

FEScalars == { \h41, \hE9, \h3042, \h4E00, \hAC00, \hD800 }

FEInputs == UNION { [1..k -> FEScalars] : k \in 1..MaxIn }

FECall(input, isnull) ==
    /\ last.op = "none"
    /\ \E outlen \in 0..MaxOut, error \in BOOLEAN :
      \E res \in charset_from_unicode(cs, input, outlen, est, error) :
        /\ est' = res.st
        /\ last' = [op |-> "from_unicode", input |-> input,
                    isnull |-> isnull, outlen |-> outlen, error |-> error,
                    pre |-> est, res |-> res]
        /\ UNCHANGED <<cs, dst, sent, wire, dout, hist>>

FEConvert == \E input \in FEInputs : FECall(input, FALSE)

FEReset == FECall(<<-1>>, TRUE)

NextFE == FEConvert \/ FEReset \/ Return

SpecFE == InitAll /\ [][NextFE]_vars

(***************************************************************************)
(* Properties of the round trip.                                           *)
(***************************************************************************)

\* C1: in every codec, for every code point c the encoder accepts from the
\* initial state, decoding the bytes emitted for c followed by the bytes
\* emitted by finalising, from the initial state, emits exactly c.
C1_RoundTrip ==
    (hist.fin /\ Len(sent) = 2 /\ wire = <<>>) => dout = <<sent[1]>>

(***************************************************************************)
(* Properties of the write members.                                        *)
(***************************************************************************)
IsSurrogate(c) == c >= \hD800 /\ c < \hE000

\* C2: a write() call that returns false has not called emit, and the
\* UTF-16 and UTF-7 encoders return false, in every state, for surrogates
\* and for values of 0x110000 and more.
C2_FailureEmitsNothing ==
    last.op = "write" =>
        /\ ~last.ret => last.out = <<>>
        /\ ( /\ cs \in {"CS_UTF16", "CS_UTF16BE", "CS_UTF16LE", "CS_UTF7",
                         "CS_UTF7_CONSERVATIVE"}
             /\ (IsSurrogate(last.input) \/ last.input >= \h110000) )
           => (~last.ret /\ last.out = <<>>)

(***************************************************************************)
(* Properties of the read members.                                         *)
(***************************************************************************)
InRange(b, lo, hi) == b >= lo /\ b <= hi

\* the bytes the decoder's code accepts as the continuation of a pending
\* character
Continues(charset, b) ==
    CASE charset = "CS_BIG5" -> InRange(b, \h40, \h7E) \/ InRange(b, \hA1, \hFE)
      [] charset = "CS_CP949" -> InRange(b, \h40, \hFF)
      [] charset = "CS_SHIFT_JIS" -> InRange(b, \h40, \hFC) /\ b # \h7F
      [] OTHER -> InRange(b, \hA1, \hFE)

\* C6: in the EUC, Big5, CP949 and Shift-JIS decoders, a byte that cannot
\* continue the pending character makes the decoder emit U+FFFF once and
\* then treat that byte as it does in the idle state.
C6_InterruptReprocessed ==
    ( /\ last.op = "read"
      /\ cs \in {"CS_EUC_JP", "CS_EUC_CN", "CS_EUC_KR", "CS_EUC_TW", "CS_BIG5",
                 "CS_CP949", "CS_SHIFT_JIS"}
      /\ last.pre.s0 # ZeroWord
      /\ ~Continues(cs, last.input) )
    => LET idle == spec_read(cs, charset_init_state, last.input) IN
         /\ last.out = <<ERROR>> \o idle.out
         /\ dst = idle.st

\* C10: in the auto-detecting UTF-16 decoder the first halfword decides the
\* byte order (FE FF: big-endian, nothing emitted; FF FE: little-endian,
\* nothing emitted; anything else: big-endian), the order never changes
\* afterwards, and every later halfword 0xFEFF is emitted as U+FEFF.
C10_AutoDetect ==
    (last.op = "read" /\ cs = "CS_UTF16" /\ last.pre.s1 # ZeroWord) =>
        LET b1 == Val(last.pre.s1) % 256
            b2 == last.input
            first == Bits(last.pre.s0, 18, 1) = 0
            order(w) == Bits(w, 16, 2)
            hw == IF order(last.pre.s0) = 1 THEN b2 * 256 + b1
                  ELSE b1 * 256 + b2
        IN IF first
           THEN IF b1 = \hFE /\ b2 = \hFF
                THEN last.out = <<>> /\ order(dst.s0) = 2
                ELSE IF b1 = \hFF /\ b2 = \hFE
                THEN last.out = <<>> /\ order(dst.s0) = 1
                ELSE order(dst.s0) = 2
           ELSE /\ order(dst.s0) = order(last.pre.s0)
                /\ hw = \hFEFF => last.out = <<\hFEFF>>

(***************************************************************************)
(* Properties of charset_from_unicode.  The reference is the plain         *)
(* sequence of write() calls on the first k characters of the input.       *)
(***************************************************************************)
RECURSIVE StateAfter(_, _, _, _)
StateAfter(charset, input, k, st) ==
    IF k = 0 THEN st
    ELSE spec_write(charset, StateAfter(charset, input, k - 1, st),
                    input[k]).st

\* the bytes of the first k characters, those of the characters in `skip'
\* left out
RECURSIVE BytesOf(_, _, _, _, _)
BytesOf(charset, input, k, st, skip) ==
    IF k = 0 THEN <<>>
    ELSE BytesOf(charset, input, k - 1, st, skip)
         \o (IF k \in skip THEN <<>>
             ELSE ToBytes(spec_write(charset,
                                     StateAfter(charset, input, k - 1, st),
                                     input[k]).out))


\* C7: with an error pointer, charset_from_unicode returns at the first
\* character write() rejects, with *error set, the input and the state as
\* they were before that character and the count of the bytes of the
\* characters before it; without an error pointer a rejected character is
\* consumed, contributes no bytes, and conversion continues.
C7_ErrorOrSkip ==
    (last.op = "from_unicode" /\ ~last.isnull) =>
        LET res == last.res
            bad == { k \in 1..Len(res.rets) : ~res.rets[k] }
        IN /\ (last.error /\ bad # {}) =>
                LET k == Min(bad) IN
                /\ res.error
                /\ res.consumed = k - 1
                /\ est = StateAfter(cs, last.input, k - 1, last.pre)
                /\ res.ret = Len(BytesOf(cs, last.input, k - 1, last.pre, {}))
           /\ (~last.error /\ ~res.stopped) =>
                /\ res.consumed = Len(last.input)
                /\ res.buf = BytesOf(cs, last.input, Len(last.input),
                                     last.pre, bad)
                /\ res.ret = Len(res.buf)

\* C8: charset_from_unicode writes at most outlen bytes, and when the
\* buffer fills inside a character it returns the count of the bytes of
\* the characters before that one, with the input and the state as they
\* were before that character.
C8_BufferNeverOverrun ==
    last.op = "from_unicode" =>
        LET res == last.res IN
        /\ Len(res.buf) <= last.outlen
        /\ res.ret <= Len(res.buf)
        /\ res.stopped =>
             /\ res.consumed < Len(last.input)
             /\ est = StateAfter(cs, last.input, res.consumed, last.pre)
             /\ res.ret = Len(BytesOf(cs, last.input, res.consumed,
                                      last.pre, {}))
             /\ res.ret + Len(spec_write(cs, est,
                                         last.input[res.consumed + 1]).out)
                  > last.outlen

\* C8 witness: the buffer filled inside the second character of a call,
\* after part of that character was stored
C8_Witness ==
    /\ last.op = "from_unicode"
    /\ last.res.stopped
    /\ last.res.consumed >= 1
    /\ Len(last.res.buf) > last.res.ret

(***************************************************************************)
(* Properties of the decoder streams.                                      *)
(***************************************************************************)

\* C5: in every codec, in every decoder state reachable from the initial
\* state by decoding bytes, a read() call of any byte completes: no assert
\* fails and every index into escapes[], nbytes[], nchars[],
\* iso2022_subcharsets[] and ctext_encodings[] that is derived from the
\* state lies inside its table; and the call emits nothing but code
\* points, U+FFFF among them, never a negative value.
C5_DecodeTotal ==
    last.op = "read" =>
        /\ last.ok
        /\ \A k \in 1..Len(last.out) : last.out[k] >= 0

\* C5 witness: a byte that cannot follow is read while an escape sequence,
\* a multi-byte character or an extended segment's name is pending, and
\* U+FFFF is emitted
C5_Witness ==
    /\ last.op = "read"
    /\ last.ok
    /\ last.pre.s0 # ZeroWord
    /\ ERROR \in { last.out[k] : k \in 1..Len(last.out) }
    /\ cs \in {"CS_ISO2022_JP", "CS_ISO2022_KR", "CS_CTEXT", "CS_ISO2022",
               "CS_EUC_JP", "CS_HZ"}

(***************************************************************************)
(* Properties of the codecs charset_contains_ascii accepts.                *)
(***************************************************************************)

\* C9: in every charset for which charset_contains_ascii returns true, for
\* every code point of 0x00..0x7F, the encoder accepts the code point from
\* the initial state, and decoding the bytes it emits, from the initial
\* state, emits exactly that code point.
C9_AsciiRoundTrip ==
    ( /\ charset_contains_ascii(cs)
      /\ last.op \in {"write", "decode"}
      /\ last.input \in 0..127 )
    => /\ last.ret
       /\ wire = <<>> => dout = <<last.input>>

(***************************************************************************)
(* Properties of finalising an encoder stream.                             *)
(***************************************************************************)
UTF7s == {"CS_UTF7", "CS_UTF7_CONSERVATIVE"}

\* the codecs whose encoder keeps nothing between characters
ZeroAtRest ==
    { "CS_ASCII", "CS_ISO8859_1", "CS_ISO8859_15", "CS_UTF8", "CS_EUC_JP",
      "CS_EUC_CN", "CS_EUC_KR", "CS_EUC_TW", "CS_BIG5", "CS_CP949",
      "CS_SHIFT_JIS", "CS_HZ" }

Preamble(charset) ==
    CASE charset = "CS_UTF16" -> emithl(utf16_variable_endianness, \hFEFF)
      [] charset = "CS_UTF16BE" -> emithl(utf16_bigendian, \hFEFF)
      [] charset = "CS_UTF16LE" -> emithl(utf16_littleendian, \hFEFF)
      [] charset = "CS_ISO2022_KR" -> iso2022kr.initial_sequence
      [] OTHER -> <<>>

\* C4 as stated: in every codec, the bytes emitted for a code point
\* encoded just after a write() of -1 are the bytes emitted for it from
\* the initial state (0,0).
C4_FreshAfterFinalize ==
    (last.op = "write" /\ last.fin /\ last.input # -1) =>
        last.out = spec_write(cs, charset_init_state, last.input).out

\* C4: in every codec, the bytes emitted for a code point encoded just
\* after a write() of -1 are the bytes emitted for it from the initial
\* state (0,0), less the preamble of the stream (the byte order mark of
\* the UTF-16 encoders, the header ESC $ ) C of ISO-2022-KR) when the
\* code point is accepted and the state the write() of -1 left is not
\* (0,0).
C4_FreshButPreamble ==
    (last.op = "write" /\ last.fin /\ last.input # -1) =>
        \E fresh \in {spec_write(cs, charset_init_state, last.input).out} :
            IF fresh # <<>> /\ last.pre # charset_init_state
            THEN fresh = Preamble(cs) \o last.out
            ELSE fresh = last.out

\* C4 witness: a code point is encoded after a write() of -1 without the
\* preamble the initial state would have had it emit
C4_Witness ==
    /\ last.op = "write" /\ last.fin /\ last.input # -1
    /\ last.out # <<>>
    /\ Preamble(cs) # <<>>
    /\ spec_write(cs, charset_init_state, last.input).out
         = Preamble(cs) \o last.out

(***************************************************************************)
(* Properties of the UTF-16 codec.                                         *)
(***************************************************************************)
UTF16s == {"CS_UTF16", "CS_UTF16BE", "CS_UTF16LE"}

IsHigh(hw) == hw >= \hD800 /\ hw < \hDC00
IsLow(hw) == hw >= \hDC00 /\ hw < \hE000

\* the halfword the byte b completes in the state st, once the byte order
\* is known
HalfwordOf(st, b) ==
    IF Bits(st.s0, 16, 1) = 1 THEN b * 256 + (Val(st.s1) % 256)
    ELSE (Val(st.s1) % 256) * 256 + b

\* C11: in the UTF-16 decoders a high surrogate halfword is stored and
\* emits nothing; a low surrogate halfword met when no high surrogate is
\* stored emits U+FFFF; and a halfword that is not a low surrogate, met
\* while a high surrogate is stored, emits U+FFFF and is then treated as
\* it is when no surrogate is stored (an ordinary halfword is emitted
\* after the U+FFFF, a high surrogate is stored).
C11_SurrogatePairs ==
    ( /\ last.op = "read" /\ cs \in UTF16s
      /\ last.pre.s1 # ZeroWord
      /\ Bits(last.pre.s0, 18, 1) = 1 )
    => \E hw \in {HalfwordOf(last.pre, last.input)} :
         IF last.pre.s0[2] = 0
         THEN /\ IsHigh(hw) => (last.out = <<>> /\ dst.s0[2] = hw)
              /\ IsLow(hw) => last.out = <<ERROR>>
         ELSE ~IsLow(hw) =>
                /\ last.out = <<ERROR>> \o Surrogates(0, hw)[2]
                /\ dst.s0[2] = Surrogates(0, hw)[1]

\* the halfwords of a code point: itself, or its surrogate pair
HalfwordsOf(c) ==
    IF c < \h10000 THEN <<c>>
    ELSE << \hD800 + ((c - \h10000) \div 1024),
            \hDC00 + ((c - \h10000) % 1024) >>

\* the bytes of halfwords in one byte order
RECURSIVE BytesOfHalfwords(_, _)
BytesOfHalfwords(big, hws) ==
    IF hws = <<>> THEN <<>>
    ELSE (IF big THEN <<Head(hws) \div 256, Head(hws) % 256>>
          ELSE <<Head(hws) % 256, Head(hws) \div 256>>)
         \o BytesOfHalfwords(big, Tail(hws))

\* what C12 says of one write() call of a UTF-16 encoder
UTF16CallOk ==
    (last.op = "write" /\ cs \in UTF16s) =>
        \E big \in {cs # "CS_UTF16LE"} :
           IF last.input = -1
           THEN last.ret /\ last.out = <<>> /\ est = last.pre
           ELSE IF IsSurrogate(last.input) \/ last.input >= \h110000
           THEN ~last.ret /\ last.out = <<>> /\ est = last.pre
           ELSE /\ last.ret
                /\ est.s0 # ZeroWord
                /\ last.out =
                     (IF last.pre.s0 = ZeroWord
                      THEN BytesOfHalfwords(big, <<\hFEFF>>) ELSE <<>>)
                     \o BytesOfHalfwords(big, HalfwordsOf(last.input))

\* C12: over any sequence of write() calls from the initial state, a
\* UTF-16 encoder emits the byte order mark exactly once, as the first two
\* bytes of the output, just before the first character it accepts (in
\* big-endian order in the auto-detecting and the big-endian variant);
\* every character is then one halfword or one surrogate pair in that
\* byte order; surrogates and values of 0x110000 and more return false;
\* and a state that has emitted the mark never becomes the initial state
\* again.
C12_BomOnce ==
    /\ []UTF16CallOk
    /\ [][(cs \in UTF16s /\ est.s0 # ZeroWord) => est'.s0 # ZeroWord]_vars

\* C12 witness: a character outside the BMP is written as a surrogate
\* pair, without a byte order mark, by an encoder that has emitted the
\* mark before
C12_Witness ==
    /\ last.op = "write" /\ cs \in UTF16s
    /\ last.pre.s0 # ZeroWord
    /\ last.input >= \h10000 /\ last.ret
    /\ Len(last.out) = 4

(***************************************************************************)
(* Properties of the UTF-7 codec.                                          *)
(***************************************************************************)
\* the base64 alphabet: A-Z, a-z, 0-9, + and /
IsBase64(b) ==
    \/ InRange(b, 65, 90) \/ InRange(b, 97, 122) \/ InRange(b, 48, 57)
    \/ b = 43 \/ b = 47

\* C13: in the UTF-7 decoders, in ASCII mode the byte + emits nothing and
\* opens base64 mode; when the byte just after it is -, a + is emitted and
\* ASCII mode resumes, and a - emits a + in that position only; in base64
\* mode a base64 digit keeps the mode, and any other byte closes it, a -
\* being swallowed and any other byte emitted as it is.
C13_ModeSwitching ==
    (last.op = "read" /\ cs \in UTF7s) =>
        \E asc \in {last.pre.s0 = ZeroWord}, just \in {last.pre.s0 = Wd(2)} :
            /\ (dst.s0 = Wd(2)) <=> (asc /\ last.input = 43)
            /\ (asc /\ last.input = 43) => last.out = <<>>
            /\ (asc /\ last.input # 43) =>
                   (dst.s0 = ZeroWord /\ last.out = <<last.input>>)
            /\ (~asc /\ IsBase64(last.input)) => dst.s0 # ZeroWord
            /\ (~asc /\ ~IsBase64(last.input)) =>
                   /\ dst.s0 = ZeroWord
                   /\ last.out = IF last.input # 45 THEN <<last.input>>
                                 ELSE IF just THEN <<43>> ELSE <<>>

\* C13 witness: the byte - is read just after the + that opened base64
\* mode, and a + is emitted
C13_Witness ==
    /\ last.op = "read" /\ cs \in UTF7s
    /\ last.pre.s0 = Wd(2) /\ last.input = 45
    /\ last.out = <<43>>

(***************************************************************************)
(* Streams through a codec: a sequence of code points is encoded, one      *)
(* write() call each, from the initial state, the output is finalised,     *)
(* and a receiver decodes the bytes from the initial state.                *)
(***************************************************************************)
MaxSeq == 3

SeqCharsets == {"CS_UTF7", "CS_UTF7_CONSERVATIVE"}

\* code points written directly, written directly only by CS_UTF7, and
\* written in base64, as one halfword or as two
SeqScalars ==
    { \h2D, \h41, \h21, \h2B, \h7E, \hE9, \h3042, \hFFFF, \h10000,
      \h10FFFF }

InitSeq ==
    /\ cs \in SeqCharsets
    /\ est = charset_init_state
    /\ dst = charset_init_state
    /\ sent = <<>>
    /\ wire = <<>>
    /\ dout = <<>>
    /\ last = NoCall
    /\ hist = [clean |-> TRUE, fin |-> FALSE]

\* one write() call of the stream; the code point counts as sent unless
\* write() returns false
SeqWrite(c) ==
    \E w \in {spec_write(cs, est, c)} : \E r \in w.rets :
        /\ est' = w.st
        /\ wire' = wire \o ToBytes(w.out)
        /\ sent' = IF c # -1 /\ w.rets # {FALSE} THEN Append(sent, c)
                   ELSE sent
        /\ last' = [op |-> "write", input |-> c, pre |-> est, ret |-> r,
                    out |-> w.out, clean |-> hist.clean, fin |-> hist.fin]
        /\ hist' = [clean |-> hist.clean /\ r, fin |-> c = -1]
        /\ UNCHANGED <<cs, dst, dout>>

SeqEncode ==
    /\ ~hist.fin
    /\ Len(sent) < MaxSeq
    /\ \E c \in SeqScalars : SeqWrite(c)

SeqFinalize ==
    /\ ~hist.fin
    /\ SeqWrite(-1)

SeqDecode ==
    /\ hist.fin
    /\ wire # <<>>
    /\ \E r \in {spec_read(cs, dst, Head(wire))} :
         /\ dst' = r.st
         /\ dout' = dout \o r.out
    /\ wire' = Tail(wire)
    /\ last' = [op |-> "decode", input |-> -1, ret |-> TRUE]
    /\ UNCHANGED <<cs, est, sent, hist>>

NextSeq == SeqEncode \/ SeqFinalize \/ SeqDecode

SpecSeq == InitSeq /\ [][NextSeq]_vars

\* C14: in both UTF-7 variants, for every sequence of code points of
\* 0..0x10FFFF that are not surrogates, encoding the sequence from the
\* initial state and then writing -1 ends an open base64 run with its
\* last digit and a -, leaves the encoder state at (0,0), and produces
\* bytes that the UTF-7 decoder, from (0,0), decodes to the sequence.
C14_StreamRoundTrip ==
    (cs \in UTF7s /\ hist.fin) =>
        /\ est = charset_init_state
        /\ (last.op = "write" /\ last.pre.s0 # ZeroWord) =>
              /\ Len(last.out) = 2
              /\ IsBase64(last.out[1])
              /\ last.out[2] = 45
        /\ (last.op = "write" /\ last.pre.s0 = ZeroWord) => last.out = <<>>
        /\ wire = <<>> => dout = sent

\* C14 witness: three code points written in base64, four halfwords, have
\* been finalised and decoded
C14_Witness ==
    /\ cs \in UTF7s /\ hist.fin /\ wire = <<>>
    /\ sent = <<\hE9, \h10000, \h3042>>
    /\ dout = sent

(***************************************************************************)
(* Properties of the HZ codec.                                             *)
(***************************************************************************)
\* C15: in the HZ decoder, in ASCII mode the pair ~~ emits one ~, ~ and a
\* newline emit nothing, ~{ switches to GB2312 mode, and every other byte
\* that is not a ~ is emitted as it is; in GB2312 mode the bytes of
\* 0x21..0x7E are taken in pairs and looked up in GB2312, ~} switches
\* back to ASCII mode, and a byte outside 0x21..0x7E emits U+FFFF once and
\* returns the decoder to ASCII mode.
C15_HzDecoder ==
    (last.op = "read" /\ cs = "CS_HZ") =>
        \E tilde \in {last.pre.s1 = Wd(126)}, b \in {last.input} :
          IF last.pre.s0 = ZeroWord
          THEN /\ (tilde /\ b = 126) =>
                     (last.out = <<126>> /\ dst = charset_init_state)
               /\ (tilde /\ b = 10) =>
                     (last.out = <<>> /\ dst = charset_init_state)
               /\ (tilde /\ b = 123) =>
                     (last.out = <<>> /\ dst = [s0 |-> Wd(1), s1 |-> ZeroWord])
               /\ (~tilde /\ b = 126) =>
                     (last.out = <<>> /\ dst.s0 = ZeroWord)
               /\ ~((tilde /\ b \in {10, 123}) \/ b = 126) =>
                     (last.out = <<b>> /\ dst = charset_init_state)
          ELSE /\ ~InRange(b, \h21, \h7E) =>
                     (last.out = <<ERROR>> /\ dst = charset_init_state)
               /\ (InRange(b, \h21, \h7E) /\ last.pre.s1 = ZeroWord) =>
                     (last.out = <<>> /\ dst = [last.pre EXCEPT !.s1 = Wd(b)])
               /\ (InRange(b, \h21, \h7E) /\ tilde /\ b = 125) =>
                     (last.out = <<>> /\ dst = charset_init_state)
               /\ ( /\ InRange(b, \h21, \h7E) /\ last.pre.s1 # ZeroWord
                    /\ ~(tilde /\ b = 125) ) =>
                     /\ last.out = <<gb2312_to_unicode(
                                       Val(last.pre.s1) - \h21, b - \h21)>>
                     /\ dst = [last.pre EXCEPT !.s1 = ZeroWord]

(***************************************************************************)
(* Byte strings given to the HZ decoder, one read() call a byte, from the  *)
(* initial state: ~{, two bytes, ~} and one more byte.                     *)
(***************************************************************************)
HZStreams ==
    { <<126, 123, a, b, 126, 125, c>> :
        a \in {\h30, \hB1, \h21, \h7E}, b \in {\h21, \hA1, \h7E},
        c \in {\h41, \h0A, \h7E} }

InitHZ ==
    /\ cs = "CS_HZ"
    /\ est = charset_init_state
    /\ dst = charset_init_state
    /\ sent = <<>>
    /\ wire \in HZStreams
    /\ dout = <<>>
    /\ last = NoCall
    /\ hist = [clean |-> TRUE, fin |-> FALSE]

\* the next byte of the string is read; `sent' is what has been read
HZRead ==
    /\ wire # <<>>
    /\ \E r \in {spec_read(cs, dst, Head(wire))} :
         /\ dst' = r.st
         /\ dout' = dout \o r.out
         /\ last' = [op |-> "read", input |-> Head(wire), pre |-> dst,
                     out |-> r.out, ok |-> r.ok]
    /\ sent' = Append(sent, Head(wire))
    /\ wire' = Tail(wire)
    /\ UNCHANGED <<cs, est, hist>>

SpecHZ == InitHZ /\ [][HZRead]_vars

\* C16 as stated: decoding the HZ bytes ~ { B1 A1 ~ } A from the initial
\* state emits exactly U+554A and then the letter A.
C16_EightBitPair ==
    (wire = <<>> /\ sent = <<126, 123, \hB1, \hA1, 126, 125, \h41>>) =>
        dout = <<\h554A, \h41>>

\* C16: decoding the HZ bytes ~ { 30 21 ~ } A from the initial state emits
\* exactly U+554A and then the letter A.
C16_SevenBitPair ==
    (wire = <<>> /\ sent = <<126, 123, \h30, \h21, 126, 125, \h41>>) =>
        (dout = <<\h554A, \h41>> /\ dst = charset_init_state)

\* C16 witness: the seven bytes ~ { 30 21 ~ } A have been read
C16_Witness ==
    /\ cs = "CS_HZ" /\ wire = <<>>
    /\ sent = <<126, 123, \h30, \h21, 126, 125, \h41>>
    /\ last.op = "read" /\ last.out = <<\h41>>

\* C17: over any sequence of write() calls that return true, the HZ
\* encoder emits ~{ before a character, exactly when the character is a
\* GB2312 character and the encoder is in ASCII mode, and ~} exactly when
\* the character is ASCII, or the call is the write() of -1, and the
\* encoder is in GB2312 mode; it emits nothing else but the character's own
\* byte or two bytes; and after the write() of -1 the encoder is in ASCII
\* mode, its state (0,0).
C17_HzEncoder ==
    (last.op = "write" /\ cs = "CS_HZ" /\ last.clean /\ last.ret) =>
        \E gbmode \in {last.pre.s0 = Wd(1)},
           want \in {IF last.input < \h80 THEN 0 ELSE 1} :
          /\ last.pre.s0 \in {ZeroWord, Wd(1)} /\ last.pre.s1 = ZeroWord
          /\ last.out =
               (IF ~gbmode /\ want = 1 THEN <<126, 123>>
                ELSE IF gbmode /\ want = 0 THEN <<126, 125>>
                ELSE <<>>)
               \o (IF last.input = -1 THEN <<>>
                   ELSE IF want = 0 THEN <<last.input>>
                   ELSE << \h21 + TabFrom(gb2312_table, last.input)[1],
                           \h21 + TabFrom(gb2312_table, last.input)[2] >>)
          /\ est = [s0 |-> Wd(want), s1 |-> ZeroWord]
          /\ last.input = -1 => est = charset_init_state

\* C17 witness: the write() of -1 finds the encoder in GB2312 mode and
\* emits ~}
C17_Witness ==
    /\ last.op = "write" /\ cs = "CS_HZ" /\ last.clean /\ last.ret
    /\ last.pre.s0 = Wd(1) /\ last.input = -1
    /\ last.out = <<126, 125>>

(***************************************************************************)
(* Properties of the EUC codecs.                                           *)
(***************************************************************************)
\* C18: the EUC-TW decoder, given the four bytes 8E P R C with P, R and C
\* in A1..FE, emits cns11643_to_unicode(P - A1, R - A1, C - A1) when
\* P - A1 is less than 7 and U+FFFF otherwise: the byte after 8E is the
\* plane and the two after it the row and the column, as the encoder
\* writes them.
C18_EucTwPlane ==
    ( /\ last.op = "read" /\ cs = "CS_EUC_TW"
      /\ Bits(last.pre.s0, 24, 8) = \h22
      /\ InRange(last.input, \hA1, \hFE) )
    => \E P \in {Bits(last.pre.s0, 8, 8)}, R \in {Bits(last.pre.s0, 0, 8)} :
         /\ dst = charset_init_state
         /\ last.out =
              << IF P - \hA1 < 7
                 THEN cns11643_to_unicode(P - \hA1, R - \hA1,
                                          last.input - \hA1)
                 ELSE ERROR >>

(***************************************************************************)
(* Properties of the ISO-2022-KR encoder.                                  *)
(***************************************************************************)
KRHeader == <<ESC, 36, 41, 67>>

\* the bytes of `pat' occur in `out', one after the other
Contains(out, pat) ==
    \E k \in 0..(Len(out) - Len(pat)) :
        \A j \in 1..Len(pat) : out[k + j] = pat[j]

\* what C19 says of one write() call of the ISO-2022-KR encoder
KRCallOk ==
    (last.op = "write" /\ cs = "CS_ISO2022_KR") =>
        \E started \in {Bits(last.pre.s1, 31, 1) = 1} :
          /\ (~started) <=> (last.pre = charset_init_state)
          /\ ~last.ret => (last.out = <<>> /\ est = last.pre)
          /\ last.ret => Bits(est.s1, 31, 1) = 1
          /\ (last.ret /\ ~started) =>
                /\ Len(last.out) >= 4
                /\ SubSeq(last.out, 1, 4) = KRHeader
                /\ ~Contains(SubSeq(last.out, 5, Len(last.out)), KRHeader)
          /\ (last.ret /\ started) => ~Contains(last.out, KRHeader)

\* C19: the ISO-2022-KR encoder, from the initial state, emits the four
\* bytes ESC $ ) C exactly once in a stream, before any other byte, in the
\* first write() call that returns true (a write() of -1 on an empty
\* stream included), and in no later call of the stream.
C19_HeaderOnce ==
    /\ []KRCallOk
    /\ [][(cs = "CS_ISO2022_KR" /\ Bits(est.s1, 31, 1) = 1)
            => Bits(est'.s1, 31, 1) = 1]_vars

\* C19 witness: the write() of -1 on an empty stream emits the header and
\* nothing else
C19_Witness ==
    /\ last.op = "write" /\ cs = "CS_ISO2022_KR"
    /\ last.pre = charset_init_state /\ last.input = -1
    /\ last.out = KRHeader

(***************************************************************************)
(* Properties of the full ISO 2022 decoder.                                *)
(***************************************************************************)
ISO2022s == {"CS_CTEXT", "CS_ISO2022"}

\* the intermediate bytes of the designations of 94- and 96-sets
Designators == {40, 41, 42, 43, 45, 46, 47}

\* the escape sequences with intermediate bytes i1, i2 (0 when absent) and
\* final byte f that are a designation, a single or locking shift, ACS,
\* IRR, or the DOCS of UTF-8 or of an extended segment
Recognised(i1, i2, f) ==
    \/ i1 \in Designators
    \/ i1 = 36 /\ i2 \in Designators \cup {0}
    \/ i1 = 0 /\ f \in {78, 79, 110, 111, 124, 125, 126}
    \/ i1 = 32
    \/ i1 = 38
    \/ i1 = 37 /\ ((i2 = 0 /\ f = 71) \/ (i2 = 47 /\ f \in {49, 50}))

\* C20: in the full ISO 2022 decoders, a complete escape sequence that is
\* not a designation, a single or locking shift, ACS, IRR or the DOCS of
\* UTF-8 or of an extended segment is emitted as it came, ESC, the
\* intermediate bytes and the final byte, and is never dropped or replaced
\* by U+FFFF; a sequence of more than two intermediate bytes that is not a
\* designation is emitted as it came, too.
C20_UnknownEscapeVerbatim ==
    (last.op = "read" /\ cs \in ISO2022s) =>
      \E MODE \in {Bits(last.pre.s0, 29, 3)},
         i1 \in {Bits(last.pre.s0, 16, 8)},
         i2 \in {Bits(last.pre.s0, 8, 8)} :
        /\ ( /\ MODE = ESCSEQ /\ InRange(last.input, \h30, \h7E)
             /\ ~Recognised(i1, i2, last.input) ) =>
               last.out = <<ESC>> \o (IF i1 # 0 THEN <<i1>> ELSE <<>>)
                          \o (IF i2 # 0 THEN <<i2>> ELSE <<>>)
                          \o <<last.input>>
        /\ ( /\ MODE = ESCSEQ /\ InRange(last.input, \h20, \h2F)
             /\ i1 # 0 /\ i2 # 0 /\ i1 \notin Designators \cup {36} ) =>
               last.out = <<ESC, i1, i2, last.input>>
        /\ (MODE = ESCPASS /\ InRange(last.input, \h20, \h7E)) =>
               last.out = <<last.input>>

(***************************************************************************)
(* The data bytes of the full ISO 2022 decoder.                            *)
(***************************************************************************)
\* the state read_iso2022 works on: s1 is set up when it is 0
ISOPre(charset, st) ==
    IF st.s1 = ZeroWord
    THEN [st EXCEPT !.s1 = iso2022_start(iso2022_mode(charset))] ELSE st

\* the byte b is read as data: not in a DOCS mode, no control, and not a
\* byte of an escape sequence
IsData(st, b) ==
    /\ Bits(st.s0, 29, 3) \notin {DOCSUTF8, DOCSCTEXT}
    /\ (b \div 32) % 4 # 0
    /\ (b >= \h80 \/ Bits(st.s0, 29, 3) < ESCSEQ)

\* the data byte b ends what is being accumulated: an escape sequence, or
\* a first byte whose high bit is not its own
Interrupts(st, b) ==
    \/ Bits(st.s0, 29, 3) >= ESCSEQ
    \/ Bits(st.s0, 16, 8) # 0 /\ (Bits(st.s0, 23, 1) = 1) # (b >= \h80)

\* the data byte b is read through a single shift
Shifted(st, b) ==
    ~Interrupts(st, b) /\ Bits(st.s0, 29, 3) \in {SS2CHAR, SS3CHAR}

\* the row of iso2022_subcharsets[] of the container invoked for b
InvokedSet(st, b) ==
    LET r == iso2022_s1(st.s1)
        container == IF Shifted(st, b) THEN Bits(st.s0, 29, 3) + 1
                     ELSE IF b >= \h80 THEN r.gr ELSE r.gl
    IN iso2022_subcharsets[r.g[container + 1] + 1]

\* the bytes 0x20 and 0x7F in a 96-character or 96x96 set are members of
\* the set: a single-byte set gives its character, a double-byte set takes
\* the byte as a first or second byte
OrdinaryMember(st, subcs, b, out, post) ==
    IF subcs.type = S6
    THEN /\ out # <<>>
         /\ out[Len(out)] = IF subcs.kind = "sbcs"
                            THEN sbcs_to_unicode(subcs.sbcs_base,
                                                 (b % 128) + subcs.offset)
                            ELSE ERROR
         /\ post.s0 = ZeroWord
    ELSE IF Interrupts(st, b) \/ Bits(st.s0, 16, 8) = 0
    THEN Bits(post.s0, 16, 8) = b
    ELSE /\ out = <<from_dbcs(subcs, Bits(st.s0, 16, 7) + subcs.offset,
                              (b % 128) + subcs.offset)>>
         /\ post.s0 = ZeroWord

\* C21: when the full ISO 2022 decoders read the byte 0x20 or 0x7F
\* (0xA0 or 0xFF) as data and the container invoked for the byte holds a
\* 94-character or 94x94 set, the byte 0x20 or 0x7F is emitted as the code
\* point 0x20 or 0x7F and the byte 0xA0 or 0xFF gives U+FFFF; when the
\* container holds a 96-character or 96x96 set, the byte is read as a
\* member of the set.
C21_OutOfSetBytes ==
    (last.op = "read" /\ cs \in ISO2022s) =>
      \E st \in {ISOPre(cs, last.pre)} :
        (IsData(st, last.input) /\ last.input % 128 \in {\h20, \h7F}) =>
          \E subcs \in {InvokedSet(st, last.input)} :
            IF subcs.type \in {S4, M4}
            THEN /\ last.out # <<>>
                 /\ last.out[Len(last.out)] =
                      IF last.input < \h80 THEN last.input ELSE ERROR
            ELSE OrdinaryMember(st, subcs, last.input, last.out, dst)

\* the same, where the byte 0x20 or 0x7F is emitted as itself when it is
\* read through the container invoked in GL, and gives U+FFFF when it is
\* read through a single shift
C21_OutOfSetBytesGL ==
    (last.op = "read" /\ cs \in ISO2022s) =>
      \E st \in {ISOPre(cs, last.pre)} :
        (IsData(st, last.input) /\ last.input % 128 \in {\h20, \h7F}) =>
          \E subcs \in {InvokedSet(st, last.input)} :
            IF subcs.type \in {S4, M4}
            THEN /\ last.out # <<>>
                 /\ last.out[Len(last.out)] =
                      IF last.input < \h80 /\ ~Shifted(st, last.input)
                      THEN last.input ELSE ERROR
                 /\ dst.s0 = ZeroWord
            ELSE OrdinaryMember(st, subcs, last.input, last.out, dst)

\* the byte 0x20 is read through a single shift to a 94-character set
C21_Witness ==
    /\ last.op = "read" /\ cs = "CS_ISO2022" /\ last.input = \h20
    /\ IsData(last.pre, \h20) /\ Shifted(last.pre, \h20)
    /\ last.pre.s1 # ZeroWord
    /\ InvokedSet(last.pre, \h20).type = S4
    /\ last.out = <<ERROR>>

\* an escape sequence, a single shift or a double-byte character is
\* incomplete
Incomplete(st) ==
    /\ Bits(st.s0, 29, 3) \notin {DOCSUTF8, DOCSCTEXT}
    /\ st.s0 # ZeroWord

\* the stored first byte of a double-byte character, or 0
StoredFirst(st) ==
    IF Bits(st.s0, 29, 3) < ESCSEQ THEN Bits(st.s0, 16, 8) ELSE 0

\* C22: in the full ISO 2022 decoders, when a C0 or C1 control arrives, or
\* a data byte whose high bit is not that of the stored first byte of a
\* double-byte character, while an escape sequence, a single shift or a
\* double-byte character is incomplete, one U+FFFF is emitted for what is
\* incomplete and the byte is then read as it is read in idle mode with
\* the same designations and locking shifts.
C22_FlushAndReprocess ==
    (last.op = "read" /\ cs \in ISO2022s) =>
      \E st \in {ISOPre(cs, last.pre)} :
        ( /\ Incomplete(st)
          /\ \/ (last.input \div 32) % 4 = 0
             \/ /\ IsData(st, last.input) /\ StoredFirst(st) # 0
                /\ (StoredFirst(st) >= \h80) # (last.input >= \h80) ) =>
          \E idle \in {iso2022_read([st EXCEPT !.s0 = ZeroWord],
                                    last.input)} :
            /\ last.out = <<ERROR>> \o idle.out
            /\ dst = idle.st

\* a byte of GR arrives after the first byte of a character of GL
C22_Witness ==
    /\ last.op = "read" /\ cs = "CS_ISO2022"
    /\ Bits(last.pre.s0, 29, 3) = IDLE /\ Bits(last.pre.s0, 16, 8) = \h41
    /\ last.input = \hA1
    /\ last.out = <<ERROR, \h21>>
    /\ dst.s0 = ZeroWord /\ dst.s1 = last.pre.s1

(***************************************************************************)
(* Compound Text extended segments: ESC % / F, the two bytes of the        *)
(* length, the encoding name, STX and the payload, read a byte a call      *)
(* from the initial state.                                                 *)
(***************************************************************************)
\* encoding names: ctext_encodings[1].name, names that are no entry of
\* ctext_encodings[], some of them the beginning of an entry
XSegKnown == <<98, 105, 103, 53, 45, 48>>
XSegUnknown ==
    { <<>>, <<98>>, <<98, 105, 103, 53>>, <<105, 115, 111>>, <<97>>,
      <<120>>, <<98, 120>>, <<98, 105, 103, 53, 45, 48, 48>> }

\* the longest payload of a segment
MaxPayload == 2

XSegPayloads ==
    UNION { [1..n -> {\h41, \hA1, \h40, 2}] : n \in 0..MaxPayload }

\* the segment with final byte f, that name and that payload
XSeg(f, name, payload) ==
    <<ESC, 37, 47, f, \h80, \h80 + Len(name) + 1 + Len(payload)>>
        \o name \o <<2>> \o payload

InitXSeg ==
    /\ cs = "CS_CTEXT"
    /\ est = charset_init_state
    /\ dst = charset_init_state
    /\ sent = <<>>
    /\ wire \in { XSeg(f, name, payload) :
                    f \in {49, 50}, name \in XSegUnknown \cup {XSegKnown},
                    payload \in XSegPayloads }
    /\ dout = <<>>
    /\ last = NoCall
    /\ hist = [clean |-> TRUE, fin |-> FALSE]

SpecXSeg == InitXSeg /\ [][HZRead]_vars

\* C23: for an extended segment whose encoding name is no name of
\* ctext_encodings[], the decoder emits nothing for the bytes of the name
\* and one U+FFFF for every byte of the payload after the STX, and is idle
\* when the segment is over; so it is for a name that is the beginning of
\* a name of ctext_encodings[].
C23_UnknownEncoding ==
    \A f \in {49, 50}, name \in XSegUnknown, payload \in XSegPayloads :
        (wire = <<>> /\ sent = XSeg(f, name, payload)) =>
            /\ dout = [k \in 1..Len(payload) |-> ERROR]
            /\ dst.s0 = ZeroWord

(***************************************************************************)
(* Two transcodings through one codec descriptor, each on a state of its   *)
(* own: an encoder on `est', given the code points `sent' and emitting     *)
(* `wire', and a decoder on `dst', given the bytes `hist' and emitting     *)
(* `dout'.  Their calls are interleaved in any order.                      *)
(***************************************************************************)
\* the most units either transcoding is given
MaxPar == 2

ParScalars == {\h41, \hE9, \h4E00, -1}
ParBytes == {ESC, \h24, \h41, \hA4}

InitPar ==
    /\ cs \in Charsets
    /\ est = charset_init_state
    /\ dst = charset_init_state
    /\ sent = <<>>
    /\ wire = <<>>
    /\ dout = <<>>
    /\ last = NoCall
    /\ hist = <<>>

\* the encoder's next call: charset->write(charset, c, &est, emit, &wire)
ParEncode ==
    /\ Len(sent) < MaxPar
    /\ \E c \in ParScalars : \E w \in {spec_write(cs, est, c)} :
         /\ est' = w.st
         /\ wire' = wire \o ToBytes(w.out)
         /\ sent' = Append(sent, c)
    /\ UNCHANGED <<cs, dst, dout, last, hist>>

\* the decoder's next call, were the codec to keep its state in storage of
\* its own, shared by all its callers
ParDecode_static ==
    /\ Len(hist) < MaxPar
    /\ \E b \in ParBytes : \E r \in {spec_read(cs, est, b)} :
         /\ est' = r.st
         /\ dout' = dout \o r.out
         /\ hist' = Append(hist, b)
    /\ UNCHANGED <<cs, dst, sent, wire, last>>

\* the decoder's next call: charset->read(charset, b, &dst, emit, &dout)
ParDecode ==
    /\ Len(hist) < MaxPar
    /\ \E b \in ParBytes : \E r \in {spec_read(cs, dst, b)} :
         /\ dst' = r.st
         /\ dout' = dout \o r.out
         /\ hist' = Append(hist, b)
    /\ UNCHANGED <<cs, est, sent, wire, last>>

NextPar == ParEncode \/ ParDecode

SpecPar == InitPar /\ [][NextPar]_vars

\* the decoder run alone on the first k bytes of input: its state and what
\* it emits
RECURSIVE ReadAlone(_, _, _)
ReadAlone(charset, input, k) ==
    IF k = 0 THEN [st |-> charset_init_state, out |-> <<>>]
    ELSE LET p == ReadAlone(charset, input, k - 1)
             r == spec_read(charset, p.st, input[k])
         IN [st |-> r.st, out |-> p.out \o r.out]

C25_DocsEntry ==
    (last.op = "read" /\ cs \in ISO2022s) =>
      \E st \in {ISOPre(cs, last.pre)} :
        \E MODE \in {Bits(st.s0, 29, 3)}, i1 \in {Bits(st.s0, 16, 8)},
           i2 \in {Bits(st.s0, 8, 8)} :
          /\ (Bits(dst.s0, 29, 3) = DOCSUTF8 /\ MODE # DOCSUTF8) =>
               (MODE = ESCSEQ /\ i1 = 37 /\ i2 = 0 /\ last.input = 71)
          /\ (Bits(dst.s0, 29, 3) = DOCSCTEXT /\ MODE # DOCSCTEXT) =>
               (MODE = ESCSEQ /\ i1 = 37 /\ i2 = 47 /\ last.input \in {49, 50})

(***************************************************************************)
(* Properties of the full ISO 2022 encoder.                                *)
(***************************************************************************)
\* the encoder's state before a call, as write_iso2022 decodes it
WPre(charset, st) == iso2022_winit(iso2022_mode(charset), st).r

\* the bytes held back in the state for a length-prefixed DOCS segment
Held(r) ==
    IF r.docs >= 2 THEN [k \in 1..r.currlen |-> r.bytes[k]] ELSE <<>>

\* C26: the full ISO 2022 encoders keep the order of their input: a call
\* that emits bytes while bytes of earlier characters are held back for a
\* length-prefixed DOCS segment emits the bytes held back, and before its
\* own; so it is when the call is given a space, DEL or a C0 or C1 control.
C26_OrderKept ==
    (last.op = "write" /\ cs \in ISO2022s) =>
      \E held \in {Held(WPre(cs, last.pre))} :
        (held # <<>> /\ last.out # <<>>) =>
          \E k \in 0..(Len(last.out) - Len(held)) :
            /\ \A j \in 1..Len(held) : last.out[k + j] = held[j]
            /\ (last.input >= 0 /\ last.input <= \h20) =>
                 k + Len(held) < Len(last.out)

\* C27: when the full ISO 2022 encoder closes its length-prefixed DOCS
\* segment because the next character needs another DOCS encoding, the
\* segment closed holds the bytes held back for it and no others, and the
\* bytes of the new character are in a segment of its own encoding.
C27_SegmentOfOneEncoding ==
    (last.op = "write" /\ cs \in ISO2022s /\ last.input > \h20) =>
      \E r \in {WPre(cs, last.pre)},
         f \in {iso2022_docs_choice(iso2022_mode(cs), last.input)},
         post \in {iso2022_wstate(est)} :
        ( /\ r.docs >= 2 /\ f.cs # -2 /\ f.cs # r.docs - 2
          /\ \A k \in 0..(Len(iso2022_subcharsets) - 1) :
               ~iso2022_match(iso2022_mode(cs), k, last.input).hit ) =>
          \E enc \in {ctext_encodings[r.docs - 1]} :
            /\ \E len \in {Len(enc.name) + r.currlen} :
                 \E closed \in
                     {<<ESC, 37, 47, 48 + enc.octets_per_char,
                        128 + (len \div 128), 128 + (len % 128)>>
                      \o enc.name \o Held(r)} :
                   /\ Len(last.out) >= Len(closed)
                   /\ SubSeq(last.out, 1, Len(closed)) = closed
                   /\ IF f.cs = -1
                      THEN SubSeq(last.out, Len(closed) + 1, Len(last.out))
                             = <<ESC, 37, 71>> \o f.data
                      ELSE /\ Len(last.out) = Len(closed)
                           /\ post.docs = f.cs + 2
                           /\ Held(post) = f.data

\* C28: no assert of write_iso2022, oselect, docs_char or
\* unicode_to_emacs_big5 fails, whatever code points the full ISO 2022
\* encoders are given from the initial state on.
C28_NoAssertFails ==
    (last.op = "write" /\ cs \in ISO2022s) =>
        write_iso2022(iso2022_mode(cs), last.pre, last.input).ok

\* C29: in the full ISO 2022 decoders a stored first byte of a double-byte
\* character is not dropped silently: the call that ends the character
\* emits the code point of the two bytes or a U+FFFF; so it is when the
\* next byte is 0x20 or 0x7F and the set is a 94x94 set invoked in GL, and
\* when an extended segment ends on a lead byte of Big5.
C29_FirstByteAccounted ==
    (last.op = "read" /\ cs \in ISO2022s) =>
      \E st \in {ISOPre(cs, last.pre)} :
        /\ (StoredFirst(st) # 0 /\ StoredFirst(dst) # StoredFirst(st)) =>
             \/ \E k \in 1..Len(last.out) : last.out[k] = ERROR
             \/ /\ IsData(st, last.input) /\ ~Interrupts(st, last.input)
                /\ \E subcs \in {InvokedSet(st, last.input)} :
                     /\ subcs.type \in {M4, M6}
                     /\ last.out =
                          <<from_dbcs(subcs,
                                      (StoredFirst(st) % 128) + subcs.offset,
                                      (last.input % 128) + subcs.offset)>>
        /\ ( /\ Bits(st.s0, 29, 3) = DOCSCTEXT
             /\ Bits(st.s0, 8, 14) = 1 /\ Bits(st.s0, 22, 4) = 15
             /\ Bits(st.s0, 26, 2) = 0
             /\ read_big5([s0 |-> <<0, Bits(st.s0, 0, 8)>>, s1 |-> ZeroWord],
                          last.input).st.s0 # ZeroWord ) =>
             \E k \in 1..Len(last.out) : last.out[k] = ERROR

(***************************************************************************)
(* Single shifts: a designation to G2 or G3, perhaps ISO 8859-1 to G1, a   *)
(* single shift, and three bytes after it, read a byte a call from the     *)
(* initial state of CS_ISO2022 (ASCII in G0 to G3, G0 in GL, G1 in GR).    *)
(***************************************************************************)
\* the sets designated: <<type, final byte>>
SSSets == { <<S4, 66>>, <<S4, 73>>, <<S6, 65>>, <<M4, 66>>, <<M4, 68>> }

\* the escape sequence that designates the set to the container
SSDesignate(container, set) ==
    <<ESC>> \o (IF set[1] = M4 THEN <<36>> ELSE <<>>)
            \o <<(IF set[1] = S6 THEN 44 ELSE 40) + container, set[2]>>

\* the single shift to the container, as a C1 control or as ESC N, ESC O
SSShift(container, c1) ==
    IF c1 THEN <<SS2 + container - 2>> ELSE <<ESC, 78 + container - 2>>

SSStream(container, set, latin, c1, b1, b2, f) ==
    SSDesignate(container, set)
        \o (IF latin THEN <<ESC, 45, 65>> ELSE <<>>)
        \o SSShift(container, c1) \o <<b1, b2, f>>

SSFirst == {\h21, \h22, \h24, \hA2}
SSSecond == {\h21, \h22, \h2F, \hAF}
SSNext == {\h41, \hC1}

InitSS ==
    /\ cs = "CS_ISO2022"
    /\ est = charset_init_state
    /\ dst = charset_init_state
    /\ sent = <<>>
    /\ wire \in { SSStream(container, set, latin, c1, b1, b2, f) :
                    container \in {2, 3}, set \in SSSets, latin \in BOOLEAN,
                    c1 \in BOOLEAN, b1 \in SSFirst, b2 \in SSSecond,
                    f \in SSNext }
    /\ dout = <<>>
    /\ last = NoCall
    /\ hist = [clean |-> TRUE, fin |-> FALSE]

SpecSS == InitSS /\ [][HZRead]_vars

\* the character of the byte b in a single-byte set
SSOne(set, b) ==
    LET subcs == iso2022_subcharsets[FindSubcharset(set[1], 0, set[2]) + 1]
    IN sbcs_to_unicode(subcs.sbcs_base, (b % 128) + subcs.offset)

\* the character of the bytes b1, b2 in a double-byte set
SSTwo(set, b1, b2) ==
    LET subcs == iso2022_subcharsets[FindSubcharset(set[1], 0, set[2]) + 1]
    IN from_dbcs(subcs, (b1 % 128) + subcs.offset, (b2 % 128) + subcs.offset)

\* the character of the byte b read through the locking shifts: ASCII in
\* GL, and ASCII or ISO 8859-1 in GR
SSLocked(latin, b) ==
    IF b < \h80 THEN SSOne(<<S4, 66>>, b)
    ELSE IF latin THEN SSOne(<<S6, 65>>, b)
    ELSE SSOne(<<S4, 66>>, b)

\* C30: after a single shift, as the byte 0x8E or 0x8F or as ESC N or
\* ESC O, the next character, one byte of a single-byte set or two bytes of
\* a double-byte set, is decoded through G2 or G3 whether its bytes have
\* the high bit or not; the characters after it are decoded through the
\* containers of the locking shifts, which are as they were.
C30_SingleShift ==
    \A container \in {2, 3}, set \in SSSets, latin \in BOOLEAN,
       c1 \in BOOLEAN, b1 \in SSFirst, b2 \in SSSecond, f \in SSNext :
        ( /\ wire = <<>>
          /\ sent = SSStream(container, set, latin, c1, b1, b2, f)
          /\ set[1] = M4 => (b1 >= \h80) = (b2 >= \h80) ) =>
            /\ dout = IF set[1] = M4
                      THEN <<SSTwo(set, b1, b2), SSLocked(latin, f)>>
                      ELSE <<SSOne(set, b1), SSLocked(latin, b2),
                             SSLocked(latin, f)>>
            /\ dst.s0 = ZeroWord
            /\ iso2022_s1(dst.s1).gl = 0 /\ iso2022_s1(dst.s1).gr = 1

\* JIS X 0212 in G3, SS3, the two bytes of U+02D8 in their GL form and a
\* letter of GL
C30_Witness ==
    /\ wire = <<>>
    /\ sent = <<ESC, 36, 43, 68, SS3, \h22, \h2F, \h41>>
    /\ dout = <<\h2D8, \h41>>

(***************************************************************************)
(* The length of an extended segment: ESC % / F, two length bytes and      *)
(* three more bytes, read a byte a call from the initial state.            *)
(***************************************************************************)
LenFirst == {\h00, \h80}
LenSecond == {\h80, \h81, \h82, \h03}
LenBytes == {ESC, LS1, \h41, SS2, 2}

InitLen ==
    /\ cs \in ISO2022s
    /\ est = charset_init_state
    /\ dst = charset_init_state
    /\ sent = <<>>
    /\ wire \in { <<ESC, 37, 47, f, b1, b2, x, y, z>> :
                    f \in {49, 50}, b1 \in LenFirst, b2 \in LenSecond,
                    x \in LenBytes, y \in LenBytes, z \in LenBytes }
    /\ dout = <<>>
    /\ last = NoCall
    /\ hist = [clean |-> TRUE, fin |-> FALSE]

SpecLen == InitLen /\ [][HZRead]_vars

\* what C31 says of the decoder once the two length bytes are read: with k
\* of the N payload bytes read, it is in the segment while k < N and idle
\* with the designations and locking shifts of the start when k = N
LenOk ==
    Len(sent) >= 6 =>
      \E N \in {(sent[5] % 128) * 128 + (sent[6] % 128)}, k \in {Len(sent) - 6} :
        /\ k < N => Bits(dst.s0, 29, 3) = DOCSCTEXT /\ SegLeft(dst) = N - k
        /\ k = N => dst.s0 = ZeroWord
        /\ k <= N => dst.s1 = iso2022_start(iso2022_mode(cs))

\* C31: after ESC % / 1 or ESC % / 2 and the length bytes b1, b2 the
\* decoder takes the next N = (b1 & 0x7F) * 128 + (b2 & 0x7F) bytes as
\* payload, none of them as an escape, a shift or a control of the outer
\* stream, and is idle with s0 = 0 right after the N-th of them, or right
\* after b2 when N = 0.
C31_SegmentLength == LenOk

\* the same for a first length byte b1 other than 0
C31_SegmentLengthNonzero == (Len(sent) >= 5 /\ sent[5] # 0) => LenOk

\* a segment of two bytes, ESC and LS1, has been read
C31_Witness ==
    /\ sent = <<ESC, 37, 47, 49, \h80, \h82, ESC, LS1>>
    /\ dst.s0 = ZeroWord /\ dout = <<>>

\* the UTF-8 decoder on bits 25:0 of s0, given the bytes in turn: the bits
\* it leaves and what it emits
RECURSIVE Utf8Run(_, _)
Utf8Run(w, bytes) ==
    IF bytes = <<>> THEN [w |-> w, out |-> <<>>]
    ELSE LET p == Utf8Run(w, SubSeq(bytes, 1, Len(bytes) - 1))
             r == read_utf8([s0 |-> p.w, s1 |-> ZeroWord], bytes[Len(bytes)])
         IN [w |-> <<r.st.s0[1] % 1024, r.st.s0[2]>>, out |-> p.out \o r.out]

\* C32: in DOCSUTF8 mode every byte is given to the UTF-8 decoder, but the
\* three bytes ESC % @ are not: they bring the decoder back to idle with s1
\* as it was and emit one U+FFFF exactly when a UTF-8 sequence was
\* incomplete; an ESC, or ESC %, that is not completed to ESC % @ is given
\* to the UTF-8 decoder, in order, before the byte that broke the match.
C32_DocsUtf8 ==
    (last.op = "read" /\ cs \in ISO2022s
       /\ Bits(last.pre.s0, 29, 3) = DOCSUTF8) =>
      \E retstate \in {Bits(last.pre.s0, 26, 2)},
         u \in {<<last.pre.s0[1] % 1024, last.pre.s0[2]>>} :
        IF retstate = 2 /\ last.input = 64
        THEN /\ last.out = IF u # ZeroWord THEN <<ERROR>> ELSE <<>>
             /\ dst = [s0 |-> ZeroWord, s1 |-> last.pre.s1]
        ELSE IF retstate = 1 /\ last.input = 37
        THEN /\ last.out = <<>>
             /\ dst = [last.pre EXCEPT !.s0 = SetBits(last.pre.s0, 26, 2, 2)]
        ELSE \E run \in
                 {Utf8Run(u, (IF retstate >= 1 THEN <<ESC>> ELSE <<>>)
                             \o (IF retstate >= 2 THEN <<37>> ELSE <<>>)
                             \o (IF last.input = ESC THEN <<>>
                                 ELSE <<last.input>>))} :
               /\ last.out = run.out
               /\ dst.s1 = last.pre.s1
               /\ Bits(dst.s0, 29, 3) = DOCSUTF8
               /\ Bits(dst.s0, 26, 2) = IF last.input = ESC THEN 1 ELSE 0
               /\ <<dst.s0[1] % 1024, dst.s0[2]>> = run.w

\* ESC % @ ends DOCS UTF-8 in the middle of a UTF-8 sequence
C32_Witness ==
    /\ last.op = "read" /\ cs = "CS_CTEXT"
    /\ Bits(last.pre.s0, 29, 3) = DOCSUTF8 /\ Bits(last.pre.s0, 26, 2) = 2
    /\ <<last.pre.s0[1] % 1024, last.pre.s0[2]>> # ZeroWord
    /\ last.input = 64 /\ last.out = <<ERROR>> /\ dst.s0 = ZeroWord

\* the row is an empty set: no character of it has a code point
IsEmptySet(subcs) == subcs.kind = "none" \/ subcs.dbcs = "null_dbcs"

\* C33: in the full ISO 2022 decoders a designation whose type,
\* intermediate and final byte are no row of iso2022_subcharsets[], or
\* which has more than two intermediate bytes (its bytes are swallowed),
\* designates the empty set of its type to the container it names; a
\* character read through a container that holds an empty set gives
\* U+FFFF, one for a byte of a single-byte set and one for two bytes of a
\* double-byte set.
C33_UnknownDesignation ==
    (last.op = "read" /\ cs \in ISO2022s) =>
      \E st \in {ISOPre(cs, last.pre)} :
      \E MODE \in {Bits(st.s0, 29, 3)}, i1 \in {Bits(st.s0, 16, 8)},
         i2 \in {Bits(st.s0, 8, 8)} :
        \* the bytes of a designation with a third intermediate byte
        /\ ( /\ MODE \in {ESCSEQ, ESCDROP} /\ InRange(last.input, \h20, \h2F)
             /\ i1 \in Designators \cup {36}
             /\ (i2 # 0 \/ MODE = ESCDROP) ) =>
               (last.out = <<>> /\ Bits(dst.s0, 29, 3) = ESCDROP)
        \* the final byte of a designation
        /\ ( /\ MODE \in {ESCSEQ, ESCDROP} /\ InRange(last.input, \h30, \h7E)
             /\ \/ i1 \in Designators
                \/ i1 = 36 /\ i2 \in Designators \cup {0} ) =>
               \E multi \in {i1 = 36},
                  d \in {IF i1 # 36 THEN i1 ELSE IF i2 = 0 THEN 40 ELSE i2} :
               \E type \in {IF d >= 45 THEN (IF multi THEN M6 ELSE S6)
                            ELSE (IF multi THEN M4 ELSE S4)},
                  container \in {IF d >= 45 THEN d - 44 ELSE d - 40} :
                 ( \/ MODE = ESCDROP
                   \/ ~\E k \in 1..Len(iso2022_subcharsets) :
                         /\ iso2022_subcharsets[k].type = type
                         /\ iso2022_subcharsets[k].i = (IF multi THEN 0 ELSE i2)
                         /\ iso2022_subcharsets[k].f = last.input ) =>
                   \E now \in {iso2022_s1(dst.s1)}, was \in {iso2022_s1(st.s1)} :
                     /\ last.out = <<>>
                     /\ IsEmptySet(iso2022_subcharsets[now.g[container + 1] + 1])
                     /\ iso2022_subcharsets[now.g[container + 1] + 1].type = type
                     /\ \A c \in 0..3 : c # container => now.g[c + 1] = was.g[c + 1]
                     /\ now.gl = was.gl /\ now.gr = was.gr
        \* a character read through an empty set
        /\ ( /\ IsData(st, last.input) /\ ~Interrupts(st, last.input)
             /\ IsEmptySet(InvokedSet(st, last.input))
             /\ InvokedSet(st, last.input).type \in {S4, M4}
                  => last.input % 128 \notin {\h20, \h7F} ) =>
               IF InvokedSet(st, last.input).type \in {S4, S6}
               THEN last.out = <<ERROR>> /\ dst.s0 = ZeroWord
               ELSE IF StoredFirst(st) = 0
               THEN last.out = <<>> /\ StoredFirst(dst) = last.input
               ELSE last.out = <<ERROR>> /\ dst.s0 = ZeroWord

\* the final byte of a designation of a 94x94 set with three intermediate
\* bytes has been read
C33_Witness ==
    /\ last.op = "read" /\ cs = "CS_ISO2022"
    /\ Bits(last.pre.s0, 29, 3) = ESCDROP /\ Bits(last.pre.s0, 16, 8) = 36
    /\ Bits(last.pre.s0, 8, 8) = 41
    /\ last.input = \h42 /\ last.out = <<>>
    /\ iso2022_subcharsets[iso2022_s1(dst.s1).g[2] + 1].type = M4
    /\ IsEmptySet(iso2022_subcharsets[iso2022_s1(dst.s1).g[2] + 1])


(***************************************************************************)
(* Escape streams of the ISO-2022-JP and ISO-2022-KR decoders: nothing or  *)
(* the first byte of a two-byte character, then as many bytes as the       *)
(* longest listed escape sequence has.                                     *)
(***************************************************************************)
ISO2022Ss == {"CS_ISO2022_JP", "CS_ISO2022_KR"}

IsoOf(charset) == IF charset = "CS_ISO2022_JP" THEN iso2022jp ELSE iso2022kr

EscBytes == {SO, SI, ESC, \h24, \h28, \h29, \h41, \h42, \h43, \h4A}

\* the bytes that leave the decoder in the middle of a two-byte character
EscMid(charset) ==
    IF charset = "CS_ISO2022_JP" THEN <<ESC, \h24, \h42, \h30>>
    ELSE <<SO, \h30>>

InitEsc ==
    /\ cs \in ISO2022Ss
    /\ est = charset_init_state
    /\ dst = charset_init_state
    /\ sent = <<>>
    /\ wire \in { head \o body :
                    head \in {<<>>, EscMid(cs)},
                    body \in [1..Len(iso2022kr_escapes[3].sequence)
                                -> EscBytes] }
    /\ dout = <<>>
    /\ last = NoCall
    /\ hist = [clean |-> TRUE, fin |-> FALSE]

SpecEsc == InitEsc /\ [][HZRead]_vars

\* the state read_iso2022s works on: s1 is set up when its top bit is clear
ISOsPre(iso, st) ==
    IF Bits(st.s1, 31, 1) = 0 THEN [st EXCEPT !.s1 = iso.s1] ELSE st

\* the bytes of the partial escape sequence the state stands for
Pending(iso, st) ==
    IF Bits(st.s0, 24, 8) = 0 THEN <<>>
    ELSE SubSeq(iso.escapes[Bits(st.s0, 27, 5) + 1].sequence, 1,
                Bits(st.s0, 24, 3))

IsSuffixOf(a, b) ==
    Len(a) <= Len(b) /\ SubSeq(b, Len(b) - Len(a) + 1, Len(b)) = a

IsProperPrefixOf(a, b) == Len(a) < Len(b) /\ SubSeq(b, 1, Len(a)) = a

\* what one call does to a partial escape: err is what the call emits
\* before anything else and base the s1 the masks are applied to
EscapeStep(iso, pre, err, base) ==
    \E cand \in {Pending(iso, pre) \o <<last.input>>} :
      /\ IsSuffixOf(Pending(iso, dst), sent)
      /\ (Pending(iso, pre) # <<>> \/ last.input \in {SO, SI, ESC}) =>
           IF \E k \in 1..Len(iso.escapes) : iso.escapes[k].sequence = cand
           THEN \E k \in 1..Len(iso.escapes) :
                  /\ iso.escapes[k].sequence = cand
                  /\ last.out = err
                  /\ dst.s0 = ZeroWord
                  /\ dst.s1 = BitXor(BitAnd(base, iso.escapes[k].andbits),
                                     iso.escapes[k].xorbits)
           ELSE IF \E k \in 1..Len(iso.escapes) :
                      IsProperPrefixOf(cand, iso.escapes[k].sequence)
           THEN /\ last.out = err
                /\ Pending(iso, dst) = cand
                /\ dst.s1 = base
           ELSE /\ last.out = err \o cand
                /\ dst.s0 = ZeroWord
                /\ Bits(dst.s1, 0, 24) = Bits(pre.s1, 0, 24)
                /\ Bits(dst.s1, 28, 1) = Bits(pre.s1, 28, 1)

\* C34 as stated: in the ISO-2022-JP and ISO-2022-KR decoders the bytes of
\* a listed escape sequence emit nothing and apply that entry's AND and XOR
\* masks to s1; a byte that extends no listed escape sequence makes the
\* bytes of the partial sequence and that byte come out as they are, in
\* order, and the decoder leaves the escape with the designations and the
\* SI/SO selection as they were.
C34_Escapes ==
    (last.op = "read" /\ cs \in ISO2022Ss) =>
      \E iso \in {IsoOf(cs)} :
      \E pre \in {ISOsPre(iso, last.pre)} :
        EscapeStep(iso, pre, <<>>, pre.s1)

\* C34: as C34_Escapes, where a two-byte character that the first byte of
\* the sequence leaves incomplete is dropped and gives one U+FFFF first.
C34_EscapesAfterCharacter ==
    (last.op = "read" /\ cs \in ISO2022Ss) =>
      \E iso \in {IsoOf(cs)} :
      \E pre \in {ISOsPre(iso, last.pre)} :
        IF Bits(pre.s1, 24, 4) # 0
        THEN EscapeStep(iso, pre, <<ERROR>>, iso2022s_clear_char(pre).s1)
        ELSE EscapeStep(iso, pre, <<>>, pre.s1)

\* ESC ( J has been read in the middle of a JIS X 0208 character
C34_Witness ==
    /\ cs = "CS_ISO2022_JP"
    /\ sent = <<ESC, \h24, \h42, \h30, ESC, \h28, \h4A>>
    /\ dout = <<ERROR>>
    /\ dst.s0 = ZeroWord /\ Bits(dst.s1, 0, 6) = 1


\* the listed escape that puts a sub-charset into its container
EscapeFor(iso, subcharset) ==
    iso.escapes[Min({ k \in 1..Len(iso.escapes) :
                        /\ iso.escapes[k].subcharset = subcharset
                        /\ iso2022s_preferred(iso.escapes[k]) })]

\* C35: the ISO-2022-JP and ISO-2022-KR encoders emit, after the initial
\* sequence of a fresh state, the designation of the character's
\* sub-charset if and only if the state holds another sub-charset in its
\* container, then SI or SO if and only if the state has the other
\* container selected, then the bytes of the character, and the state
\* records both, so that a character of the same sub-charset as the one
\* before it is emitted as its bytes alone; finalising emits each reset
\* escape if and only if its masks change s1, and leaves ASCII designated
\* and the SI container selected.
C35_EscapesWhenNeeded ==
    (last.op = "write" /\ cs \in ISO2022Ss) =>
      \E iso \in {IsoOf(cs)} :
      \E fresh \in {Bits(last.pre.s1, 31, 1) = 0} :
      \E s1a \in {IF fresh THEN iso.s1 ELSE last.pre.s1},
         hdr \in {IF fresh THEN iso.initial_sequence ELSE <<>>} :
        IF last.input = -1
        THEN /\ last.ret
             /\ \E esc \in {iso.escapes[iso.reset[1]]} :
                \E new \in {BitXor(BitAnd(s1a, esc.andbits), esc.xorbits)} :
                  /\ Len(iso.reset) = 1
                  /\ last.out = hdr \o (IF new # s1a THEN esc.sequence
                                        ELSE <<>>)
                  /\ est.s1 = new
             /\ Bits(est.s1, 0, 6) = 0
             /\ Bits(est.s1, 28, 3) = 0
        ELSE IF ~last.ret
        THEN last.out = <<>> /\ est = last.pre
        ELSE \E fu \in {iso2022s_from_ucs(iso, last.input)} :
             \E esc \in {EscapeFor(iso, fu.subcharset)} :
             \E cont \in {esc.container} :
             \E des \in {IF Bits(s1a, 6 * cont, 6) # fu.subcharset
                         THEN esc.sequence ELSE <<>>},
                shift \in {IF Bits(s1a, 28, 3) # cont
                           THEN <<IF cont = 1 THEN SO ELSE SI>> ELSE <<>>} :
               /\ cont \in {0, 1}
               /\ Len(last.out) = Len(hdr) + Len(des) + Len(shift)
                                    + At(iso.nbytes, fu.subcharset)
               /\ SubSeq(last.out, 1, Len(hdr) + Len(des) + Len(shift))
                    = hdr \o des \o shift
               /\ Bits(est.s1, 6 * cont, 6) = fu.subcharset
               /\ Bits(est.s1, 28, 3) = cont
               /\ Bits(est.s1, 31, 1) = 1

\* a JIS X 0208 character has been written after another one: two bytes
C35_Witness ==
    /\ last.op = "write" /\ cs = "CS_ISO2022_JP" /\ last.ret
    /\ last.input = \h3042
    /\ Bits(last.pre.s1, 0, 6) = 2
    /\ Len(last.out) = 2

\* finalising after a KS X 1001 character emits SI
C35_WitnessReset ==
    /\ last.op = "write" /\ cs = "CS_ISO2022_KR" /\ last.input = -1
    /\ Bits(last.pre.s1, 28, 3) = 1
    /\ last.out = <<SI>>


\* the sub-charsets of iso2022_subcharsets[] (from 0) that are enabled in
\* the charset and hold the character
FoundIn(charset, input_chr) ==
    { k \in 0..(Len(iso2022_subcharsets) - 1) :
        iso2022_match(iso2022_mode(charset), k, input_chr).hit }

\* the escape sequence that designates a row to G0 (right = FALSE) or G1
DesignationOf(subcs, right) ==
    <<ESC>> \o (IF subcs.type \in {M4, M6} THEN <<36>> ELSE <<>>)
            \o <<IF subcs.type \in {S6, M6} THEN 45
                 ELSE IF right THEN 41 ELSE 40>>
            \o (IF subcs.i # 0 THEN <<subcs.i>> ELSE <<>>)
            \o <<subcs.f>>

\* C36: the full ISO 2022 encoders use G0 in GL and G1 in GR and designate
\* to G0 and G1 only: for a character that an enabled sub-charset holds a
\* call emits, after what ends a DOCS segment, the designation of the
\* sub-charset if and only if the state does not have it in its container
\* (G1 for a 96-set, a 94x94 set and the right half of a single-byte set,
\* G0 otherwise), records it there, and then emits the one or two bytes of
\* the character, with the high bit set for G1 and clear for G0.
C36_DesignateG0G1 ==
    ( /\ last.op = "write" /\ cs \in ISO2022s
      /\ last.input > \h20 /\ ~InRange(last.input, \h7F, \h9F)
      /\ FoundIn(cs, last.input) # {} ) =>
      \E i \in {Min(FoundIn(cs, last.input))} :
      \E subcs \in {iso2022_subcharsets[i + 1]},
         pre \in {WPre(cs, last.pre)}, post \in {iso2022_wstate(est)} :
      \E right \in {\/ subcs.type \in {S6, M6, M4}
                    \/ subcs.kind = "sbcs" /\ subcs.offset = \h80} :
      \E des \in {IF (IF right THEN pre.g1 ELSE pre.g0) # i
                  THEN DesignationOf(subcs, right) ELSE <<>>},
         n \in {IF subcs.type \in {M4, M6} THEN 2 ELSE 1} :
        /\ last.ret
        /\ Len(last.out) >= Len(des) + n
        /\ \E k \in {Len(last.out) - Len(des) - n} :
             /\ SubSeq(last.out, k + 1, k + Len(des)) = des
             /\ \A j \in (k + Len(des) + 1)..Len(last.out) :
                  IF right THEN InRange(last.out[j], \hA0, \hFF)
                  ELSE InRange(last.out[j], \h21, \h7E)
             /\ pre.docs = 0 => k = 0
        /\ post.docs = 0
        /\ IF right THEN post.g1 = i /\ post.g0 = pre.g0
           ELSE post.g0 = i /\ post.g1 = pre.g1

\* U+FF61 of the right half of JIS X 0201 has been written when G1 held
\* another set: ESC ) I and the byte A1
C36_Witness ==
    /\ last.op = "write" /\ cs = "CS_ISO2022" /\ last.input = \hFF61
    /\ last.out = <<ESC, 41, 73, \hA1>>


\* the character is given to docs_char(): no enabled sub-charset holds it
\* and an enabled DOCS encoding can write it
ViaDocs(charset, input_chr) ==
    /\ input_chr > \h20 /\ ~InRange(input_chr, \h7F, \h9F)
    /\ FoundIn(charset, input_chr) = {}
    /\ iso2022_docs_choice(iso2022_mode(charset), input_chr).cs # -2

\* the call ends the length-prefixed segment the state is in
ClosesSegment(charset, pre, input_chr) ==
    /\ pre.docs >= 2
    /\ \/ input_chr = -1
       \/ /\ input_chr > \h20 /\ ~InRange(input_chr, \h7F, \h9F)
          /\ FoundIn(charset, input_chr) # {}
       \/ /\ ViaDocs(charset, input_chr)
          /\ \E f \in {iso2022_docs_choice(iso2022_mode(charset),
                                           input_chr)} :
               f.cs + 2 # pre.docs \/ pre.currlen + Len(f.data) > 5

\* no length-prefixed segment starts in the sequence
NoSegmentIn(s) ==
    \A j \in 1..(Len(s) - 2) : ~(s[j] = ESC /\ s[j + 1] = 37 /\ s[j + 2] = 47)

\* C37: a length-prefixed DOCS segment of the full ISO 2022 encoders is
\* ESC % / ('0' + octets_per_char) L1 L2, the name with its STX and the
\* payload, L1 = 0x80 | (len >> 7), L2 = 0x80 | (len & 0x7F) and len the
\* number of bytes emitted after L2; the state holds at most five bytes of
\* payload between calls, a byte held back stays in the state until a call
\* closes the segment or finalises, and that call emits it once, in the
\* payload, and holds nothing back.
C37_DocsSegment ==
    /\ cs \in ISO2022s =>
         \E now \in {iso2022_wstate(est)} :
           now.docs >= 2 => now.currlen <= 5
    /\ (last.op = "write" /\ cs \in ISO2022s) =>
         \E pre \in {WPre(cs, last.pre)}, post \in {iso2022_wstate(est)} :
           IF ClosesSegment(cs, pre, last.input)
           THEN \E enc \in {ctext_encodings[pre.docs - 1]},
                   x \in {IF ViaDocs(cs, last.input)
                          THEN iso2022_docs_choice(iso2022_mode(cs),
                                                   last.input).data
                          ELSE <<>>} :
                \E body \in {enc.name \o Held(pre) \o x} :
                \E len \in {Len(body)} :
                  /\ enc.name[Len(enc.name)] = 2
                  /\ Len(last.out) >= 6 + len
                  /\ SubSeq(last.out, 1, 6 + len)
                       = <<ESC, 37, 47, 48 + enc.octets_per_char,
                           128 + (len \div 128), 128 + (len % 128)>>
                         \o body
                  /\ NoSegmentIn(SubSeq(last.out, 7 + len, Len(last.out)))
                  /\ ViaDocs(cs, last.input) =>
                       SubSeq(last.out, 7 + len, Len(last.out))
                         \in {<<>>, <<ESC, 37, 71>>}
                  /\ Held(post) = <<>>
           ELSE /\ NoSegmentIn(last.out)
                /\ pre.docs >= 2 =>
                     /\ Len(Held(post)) >= Len(Held(pre))
                     /\ SubSeq(Held(post), 1, Len(Held(pre))) = Held(pre)
                     /\ last.out \in {<<>>, <<last.input>>}
                /\ post.docs >= 2 /\ pre.docs < 2 =>
                     /\ ViaDocs(cs, last.input)
                     /\ Held(post) = iso2022_docs_choice(iso2022_mode(cs),
                                                         last.input).data

\* a third two-byte character has been given to a segment that held two:
\* the segment is emitted with a payload of six bytes
C37_Witness ==
    /\ last.op = "write" /\ cs = "CS_CTEXT"
    /\ WPre(cs, last.pre).docs = 2 /\ WPre(cs, last.pre).currlen = 4
    /\ Len(last.out) = 19
    /\ last.out[5] = 128 /\ last.out[6] = 128 + 13
    /\ iso2022_wstate(est).currlen = 0


EUCs == {"CS_EUC_JP", "CS_EUC_CN", "CS_EUC_KR", "CS_EUC_TW"}

EucOf(charset) ==
    CASE charset = "CS_EUC_JP" -> euc_jp
      [] charset = "CS_EUC_CN" -> euc_cn
      [] charset = "CS_EUC_KR" -> euc_kr
      [] OTHER -> euc_tw

\* C38: in every EUC decoder the idle state emits a byte below 0x80 as it
\* is, 0x8E and 0x8F open the SS2 and SS3 sets and a byte of 0xA1..0xFE
\* opens the default set and is its first byte; in a set of nchars[k] > 0
\* bytes nothing is emitted until the nchars[k]-th byte of 0xA1..0xFE in a
\* row has come (the announcer is not one of them), and that byte emits
\* one code point, to_ucs of the bytes gathered, and the state is 0 again.
C38_EucBytes ==
    (last.op = "read" /\ cs \in EUCs) =>
      \E euc \in {EucOf(cs)}, s0 \in {last.pre.s0}, b \in {last.input} :
      \E k \in {Bits(s0, 28, 4)}, n \in {Bits(s0, 24, 4)} :
        IF s0 = ZeroWord
        THEN /\ b < \h80 => last.out = <<b>> /\ dst.s0 = ZeroWord
             /\ (b \in {SS2, SS3} /\ euc.nchars[b - \h8C] > 0) =>
                  last.out = <<>> /\ dst.s0 = FromBytes((b - \h8C) * 16, 0, 0, 0)
             /\ (InRange(b, \hA1, \hFE) /\ euc.nchars[1] > 1) =>
                  last.out = <<>> /\ dst.s0 = FromBytes(\h11, 0, 0, b)
        ELSE (InRange(b, \hA1, \hFE) /\ k \in 1..3) =>
               /\ euc.nchars[k] > 0 /\ n < euc.nchars[k]
               /\ \E acc \in {FromBytes(k * 16 + n + 1, Bits(s0, 8, 8),
                                        Bits(s0, 0, 8), b)} :
                    IF n + 1 < euc.nchars[k]
                    THEN last.out = <<>> /\ dst.s0 = acc
                    ELSE /\ last.out = <<euc_to_ucs(euc, acc)>>
                         /\ dst.s0 = ZeroWord

\* the third byte after SS2 has been read in EUC-TW: one code point
C38_Witness ==
    /\ last.op = "read" /\ cs = "CS_EUC_TW"
    /\ Bits(last.pre.s0, 28, 4) = 2 /\ Bits(last.pre.s0, 24, 4) = 2
    /\ InRange(last.input, \hA1, \hFE)
    /\ Len(last.out) = 1 /\ dst.s0 = ZeroWord


(***************************************************************************)
(* Shift-JIS round trips: the character of one JIS X 0208 position is      *)
(* written and its bytes are read back, or one single byte of JIS X 0201   *)
(* is read and its code point written back.  hist is the case: the         *)
(* position and the code point at it, or the byte.                         *)
(***************************************************************************)
\* code points standing for the character of the position: one the table
\* alone knows, and U+005C, which write_sjis keeps out of ASCII
SJChars == {\h3042, \h5C}

SJSingles == {\h5C, \h7E} \cup (\hA1..\hDF)

\* the JIS X 0208 table as far as the case needs it
SJTable == IF hist.single THEN {} ELSE {<<hist.row, hist.col, hist.u>>}

InitSJ ==
    /\ cs = "CS_SHIFT_JIS"
    /\ est = charset_init_state
    /\ dst = charset_init_state
    /\ dout = <<>>
    /\ last = NoCall
    /\ \/ /\ hist \in [single : {FALSE}, row : 0..93, col : 0..93,
                       u : SJChars]
          /\ sent = <<hist.u>>
          /\ wire = <<>>
       \/ /\ hist \in [single : {TRUE}, row : {0}, col : {0}, u : SJSingles]
          /\ sent = <<>>
          /\ wire = <<hist.u>>

\* write_sjis is given the next code point; the bytes of a position go to
\* the reader
SJWrite ==
    /\ sent # <<>>
    /\ \E w \in {write_sjis_on(SJTable, est, Head(sent))} :
       \E r \in w.rets :
         /\ est' = w.st
         /\ wire' = IF hist.single THEN wire ELSE wire \o w.out
         /\ last' = [op |-> "write", input |-> Head(sent), pre |-> est,
                     ret |-> r, out |-> w.out]
    /\ sent' = Tail(sent)
    /\ UNCHANGED <<cs, dst, dout, hist>>

\* read_sjis is given the next byte; the code point of a single byte goes
\* back to the writer
SJRead ==
    /\ sent = <<>> /\ wire # <<>>
    /\ \E r \in {read_sjis_on(SJTable, dst, Head(wire))} :
         /\ dst' = r.st
         /\ dout' = dout \o r.out
         /\ sent' = IF hist.single THEN r.out ELSE sent
         /\ last' = [op |-> "read", input |-> Head(wire), pre |-> dst,
                     out |-> r.out, ok |-> r.ok]
    /\ wire' = Tail(wire)
    /\ UNCHANGED <<cs, est, hist>>

NextSJ == SJWrite \/ SJRead

SpecSJ == InitSJ /\ [][NextSJ]_vars

\* C39: for every JIS X 0208 position (row, col) of 0..93 write_sjis emits
\* a lead byte of 0x81..0x9F or 0xE0..0xEF and a trail byte of 0x40..0x7E
\* or 0x80..0xFC, and read_sjis gives the character of that position for
\* the two bytes; the bytes 0x5C, 0x7E and 0xA1..0xDF are read as U+00A5,
\* U+203E and U+FF61..U+FF9F, which are written as those bytes.
C39_SjisRoundTrip ==
    /\ (~hist.single /\ last.op = "write") =>
         /\ last.ret
         /\ Len(last.out) = 2
         /\ InRange(last.out[1], \h81, \h9F) \/ InRange(last.out[1], \hE0, \hEF)
         /\ InRange(last.out[2], \h40, \h7E) \/ InRange(last.out[2], \h80, \hFC)
    /\ (~hist.single /\ last.op = "read") =>
         IF wire # <<>> THEN dout = <<>> /\ dst.s0 = Wd(last.input)
         ELSE dout = <<hist.u>> /\ dst.s0 = ZeroWord
    /\ (hist.single /\ last.op = "read") =>
         /\ dout = << CASE hist.u = \h5C -> \hA5
                        [] hist.u = \h7E -> \h203E
                        [] OTHER -> hist.u - \hA1 + \hFF61 >>
         /\ dst.s0 = ZeroWord
    /\ (hist.single /\ last.op = "write") =>
         last.ret /\ last.out = <<hist.u>>

\* the bytes EF FC of the last position have been read back
C39_Witness ==
    /\ ~hist.single /\ hist.row = 93 /\ hist.col = 93
    /\ last.op = "read" /\ last.input = \hFC /\ last.pre.s0 = Wd(\hEF)
    /\ dout = <<hist.u>>


\* a state word is below 2^32
Is32(w) == w[1] \in 0..65535 /\ w[2] \in 0..65535

\* C40: after any calls of an encoder from the state (0, 0) each of the two
\* state words is below 2^32: no call sets a bit above bit 31 of s0 or s1.
C40_WordsBelow2To32 ==
    /\ Is32(est.s0) /\ Is32(est.s1)
    /\ last.op = "write" => last.high = ZeroWord

=============================================================================
